---- MODULE Spec2Model ----
(***************************************************************************)
(* Action Replay code store, executor and interpreter                      *)
(* (Source/Core/Core/ActionReplay.cpp).                                    *)
(*                                                                         *)
(* A u32 is the pair <<hi, lo>> of its 16-bit halves: every operation on   *)
(* 32-bit words below is computed on the halves, modulo 2^32, so that no   *)
(* intermediate value leaves the range of the model checker's integers.    *)
(* Guest memory is a byte map over 32-bit addresses; a byte that was never *)
(* written reads 0.  A trace line is the tuple of its format string and    *)
(* its arguments.                                                          *)
(***************************************************************************)
EXTENDS Integers, Sequences, FiniteSets, TLC

VARIABLES
    bEnableCheats,      \* SConfig::GetInstance().bEnableCheats
    s_lock,             \* owner of the store mutex, or "none"
    s_active_codes,     \* std::vector<ARCode>
    s_internal_log,     \* std::vector<std::string>
    s_use_internal_log, \* std::atomic<bool>
    s_disable_logging,  \* the logging latch
    s_current_code,     \* position of the code being run (0: nullptr)
    last_game_running,  \* static local of RunAllActive
    mem,                \* guest memory
    alerts,             \* PanicAlertT dialogs raised so far
    pc,                 \* per thread: position in the operation it executes
    arg,                \* per thread: arguments of the operation it executes
    ret,                \* per thread: where a nested ApplyCodes returns to
    run,                \* locals of RunAllActive, of its remove_if pass and of RunCodeLocked
    got_log,            \* the copy GetSelfLog returned last
    cur,                \* history: per thread, the operation invoked last and the
                        \* value of bEnableCheats at its first statement
    calls,              \* history: per thread, operations invoked so far (bounded)
    pass,               \* history: the list the current pass started from, its runs,
                        \* the loop iterations of its runs, the passes completed so
                        \* far and the operations that have changed the list since
                        \* the last of them
    hist,               \* history: one record per list entry visited by the current run
    wr,                 \* history: guest writes of the current run, in program order
    mem0,               \* history: guest memory when the current run began
    global_ini,         \* the IniFile of the defaults shipped for the title
    local_ini,          \* the IniFile of the user's settings for the title
    arCodes,            \* the list the host holds: what LoadCodes returned last
    loaded,             \* history: per call of LoadCodes, the local IniFile it read,
                        \* whether SaveCodes had written it, its result and its alerts
    saved,              \* history: SaveCodes has written local_ini from arCodes
    dsp                 \* the DSP HLE as CUCode_CARD sees it: the ucode in place, the
                        \* mail queue, the interrupts raised, and, as history, the
                        \* call made last with what it found and the calls it made

vars == <<bEnableCheats, s_lock, s_active_codes, s_internal_log, s_use_internal_log,
          s_disable_logging, s_current_code, last_game_running, mem, alerts, pc, arg,
          ret, run, got_log, cur, calls, pass, hist, wr, mem0, global_ini, local_ini,
          arCodes, loaded, saved, dsp>>

\* bounds of the model
MaxHostCalls == 2   \* operations the ui thread invokes
MaxTicks == 1       \* RunAllActive ticks of the cpu thread
MaxLen == 4         \* entries of the code the single-code specification runs
MaxPasses == 2      \* RunAllActive ticks of the specification of successive ticks
MaxLines == 4       \* lines of section ActionReplay of the local IniFile
MaxLoads == 2       \* calls of LoadCodes

(***************************************************************************)
(* Enumerations                                                            *)
(***************************************************************************)
ZCODE_END == 0
ZCODE_NORM == 2
ZCODE_ROW == 3
ZCODE_04 == 4
CONDTIONAL_EQUAL == 1
CONDTIONAL_NOT_EQUAL == 2
CONDTIONAL_LESS_THAN_SIGNED == 3
CONDTIONAL_GREATER_THAN_SIGNED == 4
CONDTIONAL_LESS_THAN_UNSIGNED == 5
CONDTIONAL_GREATER_THAN_UNSIGNED == 6
CONDTIONAL_AND == 7
CONDTIONAL_ONE_LINE == 0
CONDTIONAL_TWO_LINES == 1
CONDTIONAL_ALL_LINES_UNTIL == 2
CONDTIONAL_ALL_LINES == 3
DATATYPE_8BIT == 0
DATATYPE_16BIT == 1
DATATYPE_32BIT == 2
DATATYPE_32BIT_FLOAT == 3
SUB_RAM_WRITE == 0
SUB_WRITE_POINTER == 1
SUB_ADD_CODE == 2
SUB_MASTER_CODE == 3

(***************************************************************************)
(* u32 arithmetic on <<hi, lo>>                                            *)
(***************************************************************************)
\* the u32 an int converts to (two's complement for a negative int)
U32(n) == <<(n \div 65536) % 65536, n % 65536>>

\* a + b modulo 2^32
AddU32(a, b) ==
    LET lo == a[2] + b[2]
    IN  <<(a[1] + b[1] + (lo \div 65536)) % 65536, lo % 65536>>

\* a + n modulo 2^32 for an int n
AddInt(a, n) == AddU32(a, U32(n))

\* unsigned a < b
LtU32(a, b) == a[1] < b[1] \/ (a[1] = b[1] /\ a[2] < b[2])

\* static_cast<s32>(a) < static_cast<s32>(b)
LtS32(a, b) ==
    LET na == a[1] >= 32768
        nb == b[1] >= 32768
    IN  IF na # nb THEN na ELSE LtU32(a, b)

RECURSIVE BitAnd(_, _)
BitAnd(x, y) ==
    IF x = 0 \/ y = 0 THEN 0
    ELSE (x % 2) * (y % 2) + 2 * BitAnd(x \div 2, y \div 2)

\* a & b
AndU32(a, b) == <<BitAnd(a[1], b[1]), BitAnd(a[2], b[2])>>

\* static_cast<s16>(x) and static_cast<s8>(x) of an unsigned field value
AsS16(x) == IF x >= 32768 THEN x - 65536 ELSE x
AsS8(x) == IF x >= 128 THEN x - 256 ELSE x

(***************************************************************************)
(* struct ARAddr                                                           *)
(***************************************************************************)
ARAddr_gcaddr(addr) == <<addr[1] % 512, addr[2]>>
ARAddr_size(addr) == (addr[1] \div 512) % 4
\* a variant that takes the type from bits 25..27
ARAddr_type_Low(addr) == (addr[1] \div 512) % 8
ARAddr_type(addr) == (addr[1] \div 2048) % 8
\* a variant that takes the subtype from bits 25..26
ARAddr_subtype_Low(addr) == (addr[1] \div 512) % 4
ARAddr_subtype(addr) == addr[1] \div 16384
GCAddress(addr) == <<32768 + (addr[1] % 512), addr[2]>>

(***************************************************************************)
(* Guest memory adapter (PowerPC HostRead and HostWrite): a flat,          *)
(* big-endian byte space that never faults.  The effect state st threaded  *)
(* through the interpreter carries mem, the trace lines, the alerts and    *)
(* the write history.                                                      *)
(***************************************************************************)
HostRead_U8(m, a) == IF a \in DOMAIN m THEN m[a] ELSE 0
HostRead_U16(m, a) == HostRead_U8(m, a) * 256 + HostRead_U8(m, AddInt(a, 1))
HostRead_U32(m, a) == <<HostRead_U16(m, a), HostRead_U16(m, AddInt(a, 2))>>
HostRead_Instruction(m, a) == HostRead_U32(m, a)

Poke(m, a, b) == (a :> b) @@ m

PokeU16(m, a, v) == Poke(Poke(m, a, (v \div 256) % 256), AddInt(a, 1), v % 256)

PokeU32(m, a, v) == PokeU16(PokeU16(m, a, v[1]), AddInt(a, 2), v[2])

HostWrite_U8(st, v, a) ==
    [st EXCEPT !.mem = Poke(@, a, v % 256),
               !.wr = Append(@, [i |-> st.idx, a |-> a, w |-> 1, v |-> <<0, v % 256>>])]

HostWrite_U16(st, v, a) ==
    [st EXCEPT !.mem = PokeU16(@, a, v),
               !.wr = Append(@, [i |-> st.idx, a |-> a, w |-> 2, v |-> <<0, v % 65536>>])]

HostWrite_U32(st, v, a) ==
    [st EXCEPT !.mem = PokeU32(@, a, v),
               !.wr = Append(@, [i |-> st.idx, a |-> a, w |-> 4, v |-> v])]

(***************************************************************************)
(* Logging and alerts                                                      *)
(***************************************************************************)
LogInfo(st, line) ==
    IF s_disable_logging THEN st
    ELSE IF ~s_use_internal_log THEN st
    ELSE [st EXCEPT !.log = Append(@, line)]

RECURSIVE LogInfos(_, _)
LogInfos(st, lines) ==
    IF lines = <<>> THEN st ELSE LogInfos(LogInfo(st, Head(lines)), Tail(lines))

PanicAlertT(st, line) == [st EXCEPT !.alerts = Append(@, line)]

Return(st, b) == [st EXCEPT !.ok = b]

(***************************************************************************)
(* Code functions.  Each takes the effect state, the decoded command word  *)
(* and the operand, and returns the effect state with .ok set to the       *)
(* function's bool result.  A loop of the source is a recursion on its     *)
(* counter; st.ok stays TRUE until the function returns, and each round    *)
(* reads it so that the rounds are evaluated one after the other.          *)
(***************************************************************************)
\* a variant of the 8-bit loop that takes the count from the upper half of
\* the operand
RamFill8_UpperHalf(st, data, new_addr, i, repeat) ==
    [st EXCEPT !.mem = [a \in {AddInt(new_addr, k) : k \in 0..data[1]} |-> data[2] % 256]
                          @@ @]

\* the rounds i..repeat of the 8-bit loop: one round, or the first half of
\* the rounds and then the second half
RECURSIVE RamFill8(_, _, _, _, _)
RamFill8(st, data, new_addr, i, repeat) ==
    IF i > repeat \/ ~st.ok THEN st
    ELSE IF i = repeat
    THEN LogInfo(HostWrite_U8(st, data[2] % 256, AddInt(new_addr, i)),
                 <<"Wrote %08x to address %08x", <<0, data[2] % 256>>,
                   AddInt(new_addr, i)>>)
    ELSE RamFill8(RamFill8(st, data, new_addr, i, (i + repeat) \div 2),
                  data, new_addr, (i + repeat) \div 2 + 1, repeat)

\* a variant of the 16-bit loop that writes once whatever the count
RamFill16_Once(st, data, new_addr, i, repeat) == HostWrite_U16(st, data[2], new_addr)

RECURSIVE RamFill16(_, _, _, _, _)
RamFill16(st, data, new_addr, i, repeat) ==
    IF i > repeat \/ ~st.ok THEN st
    ELSE RamFill16(LogInfo(HostWrite_U16(st, data[2], AddInt(new_addr, i * 2)),
                           <<"Wrote %08x to address %08x", <<0, data[2]>>,
                             AddInt(new_addr, i * 2)>>),
                   data, new_addr, i + 1, repeat)

Subtype_RamWriteAndFill(st, addr, data) ==
    LET new_addr == GCAddress(addr)
        s1 == LogInfos(st, << <<"Hardware Address: %08x", new_addr>>,
                              <<"Size: %08x", U32(ARAddr_size(addr))>> >>)
    IN  CASE ARAddr_size(addr) = DATATYPE_8BIT ->
               LET repeat == data[1] * 256 + (data[2] \div 256)
                   s2 == LogInfos(s1, << <<"8-bit Write">>, <<"--------">> >>)
               IN  Return(LogInfo(RamFill8(s2, data, new_addr, 0, repeat), <<"--------">>),
                          TRUE)
          [] ARAddr_size(addr) = DATATYPE_16BIT ->
               LET repeat == data[1]
                   s2 == LogInfos(s1, << <<"16-bit Write">>, <<"--------">> >>)
               IN  Return(LogInfo(RamFill16(s2, data, new_addr, 0, repeat), <<"--------">>),
                          TRUE)
          [] ARAddr_size(addr) \in {DATATYPE_32BIT_FLOAT, DATATYPE_32BIT} ->
               LET s2 == LogInfos(s1, << <<"32-bit Write">>, <<"--------">> >>)
                   s3 == HostWrite_U32(s2, data, new_addr)
               IN  Return(LogInfos(s3, << <<"Wrote %08x to address %08x", data, new_addr>>,
                                          <<"--------">> >>), TRUE)
          [] OTHER ->
               Return(PanicAlertT(LogInfo(s1, <<"Bad Size">>),
                                  <<"Invalid size in Ram Write And Fill">>), FALSE)

\* a variant without the 32-bit float case: that size falls to "Bad Size"
Subtype_WriteToPointer_NoFloat(st, addr, data) ==
    IF ARAddr_size(addr) = DATATYPE_32BIT_FLOAT
    THEN Return(PanicAlertT(LogInfo(st, <<"Bad Size">>),
                            <<"Invalid size in Write To Pointer">>), FALSE)
    ELSE Return(HostWrite_U32(st, data, HostRead_U32(st.mem, GCAddress(addr))), TRUE)

Subtype_WriteToPointer(st, addr, data) ==
    LET new_addr == GCAddress(addr)
        ptr == HostRead_U32(st.mem, new_addr)
        s1 == LogInfos(st, << <<"Hardware Address: %08x", new_addr>>,
                              <<"Size: %08x", U32(ARAddr_size(addr))>> >>)
    IN  CASE ARAddr_size(addr) = DATATYPE_8BIT ->
               LET thebyte == data[2] % 256
                   offset == <<data[1] \div 256, (data[1] % 256) * 256 + (data[2] \div 256)>>
                   s2 == LogInfos(s1, << <<"Write 8-bit to pointer">>, <<"--------">>,
                                         <<"Pointer: %08x", ptr>>,
                                         <<"Byte: %08x", <<0, thebyte>> >>,
                                         <<"Offset: %08x", offset>> >>)
                   s3 == HostWrite_U8(s2, thebyte, AddU32(ptr, offset))
               IN  Return(LogInfos(s3, << <<"Wrote %08x to address %08x", <<0, thebyte>>,
                                            AddU32(ptr, offset)>>,
                                          <<"--------">> >>), TRUE)
          [] ARAddr_size(addr) = DATATYPE_16BIT ->
               LET theshort == data[2]
                   offset == <<data[1] \div 32768, (data[1] * 2) % 65536>>
                   s2 == LogInfos(s1, << <<"Write 16-bit to pointer">>, <<"--------">>,
                                         <<"Pointer: %08x", ptr>>,
                                         <<"Byte: %08x", <<0, theshort>> >>,
                                         <<"Offset: %08x", offset>> >>)
                   s3 == HostWrite_U16(s2, theshort, AddU32(ptr, offset))
               IN  Return(LogInfos(s3, << <<"Wrote %08x to address %08x", <<0, theshort>>,
                                            AddU32(ptr, offset)>>,
                                          <<"--------">> >>), TRUE)
          [] ARAddr_size(addr) \in {DATATYPE_32BIT_FLOAT, DATATYPE_32BIT} ->
               LET s2 == LogInfos(s1, << <<"Write 32-bit to pointer">>, <<"--------">> >>)
                   s3 == HostWrite_U32(s2, data, ptr)
               IN  Return(LogInfos(s3, << <<"Wrote %08x to address %08x", data, ptr>>,
                                          <<"--------">> >>), TRUE)
          [] OTHER ->
               Return(PanicAlertT(LogInfo(s1, <<"Bad Size">>),
                                  <<"Invalid size in Write To Pointer">>), FALSE)

(***************************************************************************)
(* IEEE-754 single precision, round to nearest even, on bit patterns.      *)
(* A finite float is [s, e, m]: sign, exponent of the unit in the last     *)
(* place counted as the biased exponent (at least 1), and the 24-bit       *)
(* significand with its leading bit; its value is m * 2^(e - 150).         *)
(***************************************************************************)
Pow2(n) == 2 ^ n

RECURSIVE Log2(_)
Log2(n) == IF n <= 1 THEN 0 ELSE 1 + Log2(n \div 2)

\* n >> k with the lost bits or-ed into bit 0 (n < 2^31)
ShiftRightSticky(n, k) ==
    IF k = 0 THEN n
    ELSE IF k >= 31 THEN (IF n # 0 THEN 1 ELSE 0)
    ELSE LET q == n \div Pow2(k)
         IN  IF n % Pow2(k) # 0 /\ q % 2 = 0 THEN q + 1 ELSE q

FloatFields(bits) ==
    LET e == (bits[1] \div 128) % 256
        f == (bits[1] % 128) * 65536 + bits[2]
    IN  [s |-> bits[1] \div 32768,
         e |-> IF e = 0 THEN 1 ELSE e,
         m |-> IF e = 0 THEN f ELSE f + 8388608]

\* the bit pattern of sign s, biased exponent e and fraction f
FloatBits(s, e, f) == <<s * 32768 + e * 128 + (f \div 65536), f % 65536>>

\* rounds sig = significand * 8 (three extra bits), sig < 2^27, to a float
RoundPack(s, e, sig) ==
    LET m0 == sig \div 8
        r == sig % 8
        m1 == IF r > 4 \/ (r = 4 /\ m0 % 2 = 1) THEN m0 + 1 ELSE m0
        e1 == IF m1 = 16777216 THEN e + 1 ELSE e
        m2 == IF m1 = 16777216 THEN 8388608 ELSE m1
    IN  IF m2 < 8388608 THEN FloatBits(s, 0, m2)
        ELSE IF e1 >= 255 THEN FloatBits(s, 255, 0)
        ELSE FloatBits(s, e1, m2 - 8388608)

RECURSIVE Normalize(_, _, _)
\* shifts sig left until its leading bit is bit 26 or the exponent is 1
Normalize(s, e, sig) ==
    IF sig >= 67108864 \/ e = 1 THEN RoundPack(s, e, sig)
    ELSE Normalize(s, e - 1, sig * 2)

\* static_cast<float>(data) for a u32
FloatFromU32(data) ==
    IF data = <<0, 0>> THEN <<0, 0>>
    ELSE IF data[1] < 256
    THEN LET v == data[1] * 65536 + data[2]
             p == Log2(v)
         IN  FloatBits(0, 127 + p, v * Pow2(23 - p) - 8388608)
    ELSE LET p == 16 + Log2(data[1])
             k == p - 23
             sig == data[1] * Pow2(19 - k) + ShiftRightSticky(data[2] * 8, k)
         IN  RoundPack(0, 127 + p, sig)

\* x + y for finite floats x, y, x of the larger magnitude
FloatAddFinite(x, y) ==
    LET Sum(B, S) ==
            IF x.s = y.s
            THEN IF B + S = 0 THEN FloatBits(x.s, 0, 0)
                 ELSE IF B + S >= 134217728
                 THEN RoundPack(x.s, x.e + 1, ShiftRightSticky(B + S, 1))
                 ELSE RoundPack(x.s, x.e, B + S)
            ELSE IF B = S THEN <<0, 0>>
            ELSE Normalize(x.s, x.e, B - S)
    IN  Sum(x.m * 8, ShiftRightSticky(y.m * 8, x.e - y.e))

\* x + y for finite floats x, y
FloatAddOrdered(x, y) ==
    IF x.e > y.e \/ (x.e = y.e /\ x.m >= y.m) THEN FloatAddFinite(x, y)
    ELSE FloatAddFinite(y, x)

\* a + b for bit patterns a, b
FloatAdd(a, b) ==
    LET ea == (a[1] \div 128) % 256
        eb == (b[1] \div 128) % 256
        fa == (a[1] % 128) * 65536 + a[2]
        fb == (b[1] % 128) * 65536 + b[2]
    IN  IF ea = 255 /\ fa # 0 THEN <<a[1] + (IF (a[1] \div 64) % 2 = 0 THEN 64 ELSE 0), a[2]>>
        ELSE IF eb = 255 /\ fb # 0
        THEN <<b[1] + (IF (b[1] \div 64) % 2 = 0 THEN 64 ELSE 0), b[2]>>
        ELSE IF ea = 255 /\ eb = 255 /\ a[1] \div 32768 # b[1] \div 32768 THEN <<65472, 0>>
        ELSE IF ea = 255 THEN a
        ELSE IF eb = 255 THEN b
        ELSE FloatAddOrdered(FloatFields(a), FloatFields(b))

\* a variant that stores the operand in place of the sum
Subtype_AddCode_Store(st, addr, data) ==
    Return(HostWrite_U32(st, data, GCAddress(addr)), TRUE)

Subtype_AddCode(st, addr, data) ==
    LET new_addr == GCAddress(addr)
        s1 == LogInfos(st, << <<"Hardware Address: %08x", new_addr>>,
                              <<"Size: %08x", U32(ARAddr_size(addr))>> >>)
    IN  CASE ARAddr_size(addr) = DATATYPE_8BIT ->
               LET s2 == LogInfos(s1, << <<"8-bit Add">>, <<"--------">> >>)
                   s3 == HostWrite_U8(s2, (HostRead_U8(s2.mem, new_addr) + data[2]) % 256,
                                      new_addr)
               IN  Return(LogInfos(s3, << <<"Wrote %02x to address %08x",
                                            <<0, HostRead_U8(s3.mem, new_addr)>>, new_addr>>,
                                          <<"--------">> >>), TRUE)
          [] ARAddr_size(addr) = DATATYPE_16BIT ->
               LET s2 == LogInfos(s1, << <<"16-bit Add">>, <<"--------">> >>)
                   s3 == HostWrite_U16(s2, (HostRead_U16(s2.mem, new_addr) + data[2]) % 65536,
                                       new_addr)
               IN  Return(LogInfos(s3, << <<"Wrote %04x to address %08x",
                                            <<0, HostRead_U16(s3.mem, new_addr)>>, new_addr>>,
                                          <<"--------">> >>), TRUE)
          [] ARAddr_size(addr) = DATATYPE_32BIT ->
               LET s2 == LogInfos(s1, << <<"32-bit Add">>, <<"--------">> >>)
                   s3 == HostWrite_U32(s2, AddU32(HostRead_U32(s2.mem, new_addr), data),
                                       new_addr)
               IN  Return(LogInfos(s3, << <<"Wrote %08x to address %08x",
                                            HostRead_U32(s3.mem, new_addr), new_addr>>,
                                          <<"--------">> >>), TRUE)
          [] ARAddr_size(addr) = DATATYPE_32BIT_FLOAT ->
               LET s2 == LogInfos(s1, << <<"32-bit floating Add">>, <<"--------">> >>)
                   Store(read, newval) ==
                       Return(LogInfos(HostWrite_U32(s2, newval, new_addr),
                                       << <<"Old Value %08x", read>>,
                                          <<"Increment %08x", data>>,
                                          <<"New value %08x", newval>>,
                                          <<"--------">> >>), TRUE)
                   Add(read) == Store(read, FloatAdd(read, FloatFromU32(data)))
               IN  Add(HostRead_U32(s2.mem, new_addr))
          [] OTHER ->
               Return(PanicAlertT(LogInfo(s1, <<"Bad Size">>),
                                  <<"Invalid size in Add Code">>), FALSE)

\* a variant that takes the master code for done
Subtype_MasterCode_Ignored(st, addr, data) == Return(st, TRUE)

Subtype_MasterCodeAndWriteToCCXXXXXX(st, addr, data) ==
    Return(PanicAlertT(st, <<"Master Code and Write To CCXXXXXX not implemented">>), FALSE)

RECURSIVE Slide8(_, _, _, _, _, _)
Slide8(st, val, curr_addr, addr_incr, val_incr, n) ==
    IF n = 0 \/ ~st.ok THEN st
    ELSE LET s1 == HostWrite_U8(st, val[2] % 256, curr_addr)
             curr1 == AddInt(curr_addr, addr_incr)
             val1 == AddInt(val, val_incr)
         IN  Slide8(LogInfos(s1, << <<"Write %08x to address %08x",
                                      <<0, val1[2] % 256>>, curr1>>,
                                    <<"Value Update: %08x", val1>>,
                                    <<"Current Hardware Address Update: %08x", curr1>> >>),
                    val1, curr1, addr_incr, val_incr, n - 1)

\* a variant of the 16-bit loop that advances before it writes
RECURSIVE Slide16_AdvanceFirst(_, _, _, _, _, _)
Slide16_AdvanceFirst(st, val, curr_addr, addr_incr, val_incr, n) ==
    IF n = 0 THEN st
    ELSE Slide16_AdvanceFirst(HostWrite_U16(st, AddInt(val, val_incr)[2],
                                            AddInt(curr_addr, addr_incr * 2)),
                              AddInt(val, val_incr), AddInt(curr_addr, addr_incr * 2),
                              addr_incr, val_incr, n - 1)

RECURSIVE Slide16(_, _, _, _, _, _)
Slide16(st, val, curr_addr, addr_incr, val_incr, n) ==
    IF n = 0 \/ ~st.ok THEN st
    ELSE LET s1 == LogInfo(HostWrite_U16(st, val[2], curr_addr),
                           <<"Write %08x to address %08x", <<0, val[2]>>, curr_addr>>)
             curr1 == AddInt(curr_addr, addr_incr * 2)
             val1 == AddInt(val, val_incr)
         IN  Slide16(LogInfos(s1, << <<"Value Update: %08x", val1>>,
                                     <<"Current Hardware Address Update: %08x", curr1>> >>),
                     val1, curr1, addr_incr, val_incr, n - 1)

RECURSIVE Slide32(_, _, _, _, _, _)
Slide32(st, val, curr_addr, addr_incr, val_incr, n) ==
    IF n = 0 \/ ~st.ok THEN st
    ELSE LET s1 == LogInfo(HostWrite_U32(st, val, curr_addr),
                           <<"Write %08x to address %08x", val, curr_addr>>)
             curr1 == AddInt(curr_addr, addr_incr * 4)
             val1 == AddInt(val, val_incr)
         IN  Slide32(LogInfos(s1, << <<"Value Update: %08x", val1>>,
                                     <<"Current Hardware Address Update: %08x", curr1>> >>),
                     val1, curr1, addr_incr, val_incr, n - 1)

ZeroCode_FillAndSlide(st, val_last, addr, data) ==
    LET new_addr == GCAddress(val_last)
        size == ARAddr_size(val_last)
        addr_incr == AsS16(data[2])
        val_incr == AsS8(data[1] \div 256)
        write_num == data[1] % 256
        s1 == LogInfos(st, << <<"Current Hardware Address: %08x", new_addr>>,
                              <<"Size: %08x", U32(ARAddr_size(addr))>>,
                              <<"Write Num: %08x", U32(write_num)>>,
                              <<"Address Increment: %i", addr_incr>>,
                              <<"Value Increment: %i", val_incr>> >>)
    IN  CASE size = DATATYPE_8BIT ->
               LET s2 == LogInfos(s1, << <<"8-bit Write">>, <<"--------">> >>)
               IN  Return(LogInfo(Slide8(s2, addr, new_addr, addr_incr, val_incr, write_num),
                                  <<"--------">>), TRUE)
          [] size = DATATYPE_16BIT ->
               LET s2 == LogInfos(s1, << <<"16-bit Write">>, <<"--------">> >>)
               IN  Return(LogInfo(Slide16(s2, addr, new_addr, addr_incr, val_incr, write_num),
                                  <<"--------">>), TRUE)
          [] size = DATATYPE_32BIT ->
               LET s2 == LogInfos(s1, << <<"32-bit Write">>, <<"--------">> >>)
               IN  Return(LogInfo(Slide32(s2, addr, new_addr, addr_incr, val_incr, write_num),
                                  <<"--------">>), TRUE)
          [] OTHER ->
               Return(PanicAlertT(LogInfo(s1, <<"Bad Size">>),
                                  <<"Invalid size in Fill and Slide">>), FALSE)

\* the rounds i..num_bytes-1 of the copy loop: one round, or the first half
\* of the rounds and then the second half
RECURSIVE CopyBytes(_, _, _, _, _)
CopyBytes(st, src, dest, i, num_bytes) ==
    IF i >= num_bytes \/ ~st.ok THEN st
    ELSE IF i + 1 = num_bytes
    THEN LET Round(s1) ==
                 LogInfo(s1, <<"Wrote %08x to address %08x",
                               <<0, HostRead_U8(s1.mem, AddInt(src, i))>>, AddInt(dest, i)>>)
         IN  Round(HostWrite_U8(st, HostRead_U8(st.mem, AddInt(src, i)), AddInt(dest, i)))
    ELSE CopyBytes(CopyBytes(st, src, dest, i, (i + num_bytes) \div 2),
                   src, dest, (i + num_bytes) \div 2, num_bytes)

\* a variant that copies nothing and leaves the memory copy pending
ZeroCode_MemoryCopy_Pending(st, val_last, addr, data) ==
    Return([st EXCEPT !.do_memory_copy = TRUE], TRUE)

\* a variant that never follows the pointers and never finds a bad value
ZeroCode_MemoryCopy_Direct(st, val_last, addr, data) ==
    Return(CopyBytes(st, GCAddress(addr),
                     <<val_last[1] - ((val_last[1] \div 512) % 4) * 512, val_last[2]>>,
                     0, (data[2] % 32768) % 256), TRUE)

\* a variant that copies from the destination to the source
ZeroCode_MemoryCopy_Reversed(st, val_last, addr, data) ==
    Return(CopyBytes(st, <<val_last[1] - ((val_last[1] \div 512) % 4) * 512, val_last[2]>>,
                     GCAddress(addr), 0, (data[2] % 32768) % 256), TRUE)

ZeroCode_MemoryCopy(st, val_last, addr, data) ==
    LET addr_dest == <<val_last[1] - ((val_last[1] \div 512) % 4) * 512, val_last[2]>>
        addr_src == GCAddress(addr)
        num_bytes == (data[2] % 32768) % 256
        s1 == LogInfos(st, << <<"Dest Address: %08x", addr_dest>>,
                              <<"Src Address: %08x", addr_src>>,
                              <<"Size: %08x", U32(num_bytes)>> >>)
    IN  IF data[1] % 256 = 0
        THEN IF data[1] \div 256 # 0
             THEN LET s2 == LogInfos(s1, << <<"Memory Copy With Pointers Support">>,
                                            <<"--------">> >>)
                      ptr_dest == HostRead_U32(s2.mem, addr_dest)
                      s3 == LogInfo(s2, <<"Resolved Dest Address to: %08x", ptr_dest>>)
                      ptr_src == HostRead_U32(s3.mem, addr_src)
                      s4 == LogInfo(s3, <<"Resolved Src Address to: %08x", ptr_src>>)
                  IN  Return(LogInfo(CopyBytes(s4, ptr_src, ptr_dest, 0, num_bytes),
                                     <<"--------">>), TRUE)
             ELSE LET s2 == LogInfos(s1, << <<"Memory Copy Without Pointers Support">>,
                                            <<"--------">> >>)
                  IN  Return(LogInfo(CopyBytes(s2, addr_src, addr_dest, 0, num_bytes),
                                     <<"--------">>), TRUE)
        ELSE Return(PanicAlertT(LogInfo(s1, <<"Bad Value">>),
                                <<"Invalid value in Memory Copy",
                                  <<data[1], (data[2] \div 32768) * 32768>> >>), FALSE)

NormalCode(st, addr, data) ==
    CASE ARAddr_subtype(addr) = SUB_RAM_WRITE ->
           Subtype_RamWriteAndFill(LogInfo(st, <<"Doing Ram Write And Fill">>), addr, data)
      [] ARAddr_subtype(addr) = SUB_WRITE_POINTER ->
           Subtype_WriteToPointer(LogInfo(st, <<"Doing Write To Pointer">>), addr, data)
      [] ARAddr_subtype(addr) = SUB_ADD_CODE ->
           Subtype_AddCode(LogInfo(st, <<"Doing Add Code">>), addr, data)
      [] ARAddr_subtype(addr) = SUB_MASTER_CODE ->
           Subtype_MasterCodeAndWriteToCCXXXXXX(
               LogInfo(st, <<"Doing Master Code And Write to CCXXXXXX (ncode not supported)">>),
               addr, data)
      [] OTHER ->
           Return(PanicAlertT(LogInfo(st, <<"Bad Subtype">>),
                              <<"Normal Code 0: Invalid Subtype">>), FALSE)

CompareValues(st, val1, val2, type) ==
    CASE type = CONDTIONAL_EQUAL ->
           Return(LogInfo(st, <<"Type 1: If Equal">>), val1 = val2)
      [] type = CONDTIONAL_NOT_EQUAL ->
           Return(LogInfo(st, <<"Type 2: If Not Equal">>), val1 # val2)
      [] type = CONDTIONAL_LESS_THAN_SIGNED ->
           Return(LogInfo(st, <<"Type 3: If Less Than (Signed)">>), LtS32(val1, val2))
      [] type = CONDTIONAL_GREATER_THAN_SIGNED ->
           Return(LogInfo(st, <<"Type 4: If Greater Than (Signed)">>), LtS32(val2, val1))
      [] type = CONDTIONAL_LESS_THAN_UNSIGNED ->
           Return(LogInfo(st, <<"Type 5: If Less Than (Unsigned)">>), LtU32(val1, val2))
      [] type = CONDTIONAL_GREATER_THAN_UNSIGNED ->
           Return(LogInfo(st, <<"Type 6: If Greater Than (Unsigned)">>), LtU32(val2, val1))
      [] type = CONDTIONAL_AND ->
           Return(LogInfo(st, <<"Type 7: If And">>), AndU32(val1, val2) # <<0, 0>>)
      [] OTHER ->
           Return(PanicAlertT(LogInfo(st, <<"Unknown Compare type">>),
                              <<"Invalid Normal Code Type">>), FALSE)

\* a variant that skips two lines for either subtype
SkipLines_Two(subtype) == 2

\* a variant that skips one line too few
SkipLines_OneLess(subtype) == subtype

\* "*pSkipCount = addr.subtype + 1;  // Skip 1 or 2 lines"
SkipLines(subtype) == subtype + 1

ConditionalCode(st, addr, data) ==
    LET new_addr == GCAddress(addr)
        s1 == LogInfos(st, << <<"Size: %08x", U32(ARAddr_size(addr))>>,
                              <<"Hardware Address: %08x", new_addr>> >>)
        \* "// if the comparison failed we need to skip some lines"
        Skip(cmp) ==
            IF cmp.ok THEN Return(cmp, TRUE)
            ELSE CASE ARAddr_subtype(addr) \in {CONDTIONAL_ONE_LINE, CONDTIONAL_TWO_LINES} ->
                        Return([cmp EXCEPT !.skip_count = SkipLines(ARAddr_subtype(addr))],
                               TRUE)
                   [] ARAddr_subtype(addr) \in {CONDTIONAL_ALL_LINES,
                                                CONDTIONAL_ALL_LINES_UNTIL} ->
                        Return([cmp EXCEPT !.skip_count = -ARAddr_subtype(addr)], TRUE)
                   [] OTHER ->
                        Return(PanicAlertT(LogInfo(cmp, <<"Bad Subtype">>),
                                           <<"Normal Code 1: Invalid subtype">>), FALSE)
    IN  CASE ARAddr_size(addr) = DATATYPE_8BIT ->
               Skip(CompareValues(s1, <<0, HostRead_U8(s1.mem, new_addr)>>,
                                  <<0, data[2] % 256>>, ARAddr_type(addr)))
          [] ARAddr_size(addr) = DATATYPE_16BIT ->
               Skip(CompareValues(s1, <<0, HostRead_U16(s1.mem, new_addr)>>,
                                  <<0, data[2]>>, ARAddr_type(addr)))
          [] ARAddr_size(addr) \in {DATATYPE_32BIT_FLOAT, DATATYPE_32BIT} ->
               Skip(CompareValues(s1, HostRead_U32(s1.mem, new_addr), data,
                                  ARAddr_type(addr)))
          [] OTHER ->
               Return(PanicAlertT(LogInfo(s1, <<"Bad Size">>),
                                  <<"Conditional Code: Invalid Size">>), FALSE)

(***************************************************************************)
(* RunCodeLocked: one iteration of its loop over arcode.ops.  st carries   *)
(* the function's locals; .res is "continue" while the loop goes on and    *)
(* "true"/"false" once the function has returned.                          *)
(***************************************************************************)
Continue(st) == [st EXCEPT !.res = "continue"]
\* a variant that restores the guest memory the run started from when it fails
Finish_Rollback(st, b) ==
    [st EXCEPT !.res = IF b THEN "true" ELSE "false", !.mem = IF b THEN @ ELSE mem0]

Finish(st, b) == [st EXCEPT !.res = IF b THEN "true" ELSE "false"]

\* a variant whose zero code 04 sets both pending flags
ZeroCode_BothPending(st, data) ==
    IF data[1] \div 8192 = ZCODE_04
    THEN Continue([st EXCEPT !.do_fill_and_slide = TRUE, !.do_memory_copy = TRUE,
                             !.val_last = data])
    ELSE IF data[1] \div 8192 = ZCODE_NORM THEN Continue(st)
    ELSE Finish(st, data[1] \div 8192 = ZCODE_END)

ZeroCode(st, data) ==
    LET zcode == data[1] \div 8192
        s1 == LogInfo(st, <<"Doing Zero Code %08x", U32(zcode)>>)
    IN  CASE zcode = ZCODE_END ->
               Finish(LogInfo(s1, <<"ZCode: End Of Codes">>), TRUE)
          [] zcode = ZCODE_NORM ->
               Continue(LogInfo(s1, <<"ZCode: Normal execution of codes">>))
          [] zcode = ZCODE_ROW ->
               Finish(PanicAlertT(LogInfo(s1, <<"ZCode: Executes all codes in the same row">>),
                                  <<"Zero 3 code not supported">>), FALSE)
          [] zcode = ZCODE_04 ->
               IF (data[1] \div 512) % 4 = 3
               THEN Continue([LogInfo(s1, <<"ZCode: Memory Copy">>)
                                EXCEPT !.do_memory_copy = TRUE, !.val_last = data])
               ELSE Continue([LogInfo(s1, <<"ZCode: Fill And Slide">>)
                                EXCEPT !.do_fill_and_slide = TRUE, !.val_last = data])
          [] OTHER ->
               Finish(PanicAlertT(LogInfo(s1, <<"ZCode: Unknown">>),
                                  <<"Zero code unknown to Dolphin: %08x", U32(zcode)>>), FALSE)

\* the "ActionReplay program self modification codes" test on the raw command word
SelfModification(addr) == ~LtU32(addr, <<0, \h2000>>) /\ LtU32(addr, <<0, \h3000>>)

\* a variant that takes every zero code for the endif line
IsEndifLine_AnyZeroCode(addr, data) == addr = <<0, 0>>

\* "if (addr == 0 && 0x40000000 == data)  // check for an endif line"
IsEndifLine(addr, data) == addr = <<0, 0>> /\ <<\h4000, 0>> = data

\* the part of the loop body that runs an entry that is not skipped, for the
\* variants below
RunEntry_NotSkipped(st, entry) ==
    LET addr == entry.cmd_addr
        data == entry.value
        Done(s) == IF ~s.ok THEN Finish(s, FALSE) ELSE Continue(s)
        s0 == LogInfo(st, <<"--- Running Code: %08x %08x ---", addr, data>>)
    IN  IF s0.do_fill_and_slide
        THEN Done(ZeroCode_FillAndSlide([s0 EXCEPT !.do_fill_and_slide = FALSE],
                                        s0.val_last, addr, data))
        ELSE IF s0.do_memory_copy
        THEN Done(ZeroCode_MemoryCopy([s0 EXCEPT !.do_memory_copy = FALSE],
                                      s0.val_last, addr, data))
        ELSE IF SelfModification(addr) THEN Finish(s0, FALSE)
        ELSE IF addr = <<0, 0>> THEN ZeroCode(s0, data)
        ELSE IF ARAddr_type(addr) = 0 THEN Done(NormalCode(s0, addr, data))
        ELSE Done(ConditionalCode(s0, addr, data))

\* the part of the loop body that skips an entry, for the variants below
RunEntry_Skipped(st, entry) ==
    IF st.skip_count > 0 THEN Continue([st EXCEPT !.skip_count = @ - 1])
    ELSE IF -CONDTIONAL_ALL_LINES = st.skip_count THEN Finish(st, TRUE)
    ELSE IF IsEndifLine(entry.cmd_addr, entry.value)
    THEN Continue([st EXCEPT !.skip_count = 0])
    ELSE Continue(st)

\* a variant whose positive skip counts a zero code 04 and its second line
\* as one line
RunEntry_SkipsPairs(st, entry) ==
    IF st.skip_count > 0 /\ entry.cmd_addr = <<0, 0>>
       /\ entry.value[1] \div 8192 = ZCODE_04
    THEN Continue(st)
    ELSE IF st.skip_count # 0 THEN RunEntry_Skipped(st, entry)
    ELSE RunEntry_NotSkipped(st, entry)

\* a variant that looks at an entry before it skips it and returns failure
\* for one it does not support
RunEntry_ChecksSkipped(st, entry) ==
    IF st.skip_count # 0
    THEN IF RunEntry_NotSkipped([st EXCEPT !.skip_count = 0], entry).res = "false"
         THEN Finish(st, FALSE)
         ELSE RunEntry_Skipped(st, entry)
    ELSE RunEntry_NotSkipped(st, entry)

RunEntry(st, entry) ==
    LET addr == entry.cmd_addr
        data == entry.value
        \* "if (!F(...)) return false;  continue;"
        Done(s) == IF ~s.ok THEN Finish(s, FALSE) ELSE Continue(s)
    IN  IF st.skip_count # 0
        THEN IF st.skip_count > 0
             THEN Continue([LogInfo(st, <<"Line skipped">>) EXCEPT !.skip_count = @ - 1])
             ELSE IF -CONDTIONAL_ALL_LINES = st.skip_count
             THEN Finish(LogInfo(st, <<"All Lines skipped">>), TRUE)
             ELSE IF -CONDTIONAL_ALL_LINES_UNTIL = st.skip_count
             THEN LET s1 == LogInfo(st, <<"Line skipped">>)
                  IN  IF IsEndifLine(addr, data)
                      THEN Continue([s1 EXCEPT !.skip_count = 0])
                      ELSE Continue(s1)
             ELSE Continue(st)
        ELSE LET s0 == LogInfo(st, <<"--- Running Code: %08x %08x ---", addr, data>>)
             IN  IF s0.do_fill_and_slide
                 THEN Done(ZeroCode_FillAndSlide(
                               LogInfo([s0 EXCEPT !.do_fill_and_slide = FALSE],
                                       <<"Doing Fill And Slide">>),
                               s0.val_last, addr, data))
                 ELSE IF s0.do_memory_copy
                 THEN Done(ZeroCode_MemoryCopy(
                               LogInfo([s0 EXCEPT !.do_memory_copy = FALSE],
                                       <<"Doing Memory Copy">>),
                               s0.val_last, addr, data))
                 ELSE IF SelfModification(addr)
                 THEN Finish(PanicAlertT(
                                 LogInfo(s0, <<"does not support codes that modify Action Replay itself">>),
                                 <<"does not support codes that modify Action Replay itself">>),
                             FALSE)
                 ELSE IF addr = <<0, 0>>
                 THEN ZeroCode(s0, data)
                 ELSE LET s1 == LogInfos(s0, << <<"Doing Normal Code %08x",
                                                  U32(ARAddr_type(addr))>>,
                                                <<"Subtype: %08x",
                                                  U32(ARAddr_subtype(addr))>> >>)
                      IN  IF ARAddr_type(addr) = 0
                          THEN Done(NormalCode(s1, addr, data))
                          ELSE Done(ConditionalCode(
                                        LogInfo(s1, <<"This Normal Code is a Conditional Code">>),
                                        addr, data))

mem_check(address) == ~LtU32(address, <<\h8000, 0>>) /\ LtU32(address, <<\h8180, 0>>)

(***************************************************************************)
(* Codes                                                                   *)
(***************************************************************************)
AREntry(cmd_addr, value) == [cmd_addr |-> cmd_addr, value |-> value]

ARCode(name, active, user_defined, ops) ==
    [name |-> name, active |-> active, user_defined |-> user_defined, ops |-> ops]

beamChangeCode_mp1(base_offset) ==
    ARCode("", TRUE, TRUE,
           <<AREntry(AddInt(base_offset, 0), <<\h3C80, \h804A>>),
             AREntry(AddInt(base_offset, 4), <<\h3884, \h79F0>>),
             AREntry(AddInt(base_offset, 8), <<\h8064, \h0000>>),
             AREntry(AddInt(base_offset, 12), <<\h2C03, \h0000>>),
             AREntry(AddInt(base_offset, 16), <<\h4182, \h0058>>),
             AREntry(AddInt(base_offset, 20), <<\h8344, \h0004>>),
             AREntry(AddInt(base_offset, 24), <<\h7F59, \hD378>>),
             AREntry(AddInt(base_offset, 28), <<\h3860, \h0000>>),
             AREntry(AddInt(base_offset, 32), <<\h9064, \h0000>>),
             AREntry(AddInt(base_offset, 36), <<\h4800, \h0044>>)>>)

beamChangeCode_mp2(base_offset) ==
    ARCode("", TRUE, TRUE,
           <<AREntry(AddInt(base_offset, 0), <<\h3C80, \h804D>>),
             AREntry(AddInt(base_offset, 4), <<\h3884, \hD250>>),
             AREntry(AddInt(base_offset, 8), <<\h8064, \h0000>>),
             AREntry(AddInt(base_offset, 12), <<\h2C03, \h0000>>),
             AREntry(AddInt(base_offset, 16), <<\h4182, \h005C>>),
             AREntry(AddInt(base_offset, 20), <<\h83E4, \h0004>>),
             AREntry(AddInt(base_offset, 24), <<\h7FFE, \hFB78>>),
             AREntry(AddInt(base_offset, 28), <<\h3860, \h0000>>),
             AREntry(AddInt(base_offset, 32), <<\h9064, \h0000>>),
             AREntry(AddInt(base_offset, 36), <<\h4800, \h0048>>)>>)

controlStateHook_mp3(base_offset, ntsc) ==
    ARCode("", TRUE, TRUE,
           (IF ntsc
            THEN <<AREntry(AddInt(base_offset, 0), <<\h3C60, \h805C>>),
                   AREntry(AddInt(base_offset, 4), <<\h3863, \h6C40>>)>>
            ELSE <<AREntry(AddInt(base_offset, 0), <<\h3C60, \h805D>>),
                   AREntry(AddInt(base_offset, 4), <<\h3863, \hA0C0>>)>>)
           \o <<AREntry(AddInt(base_offset, 8), <<\h8063, \h002C>>),
                AREntry(AddInt(base_offset, 12), <<\h8063, \h0004>>),
                AREntry(AddInt(base_offset, 16), <<\h8063, \h2184>>),
                AREntry(AddInt(base_offset, 20), <<\h7C03, \hF800>>),
                AREntry(AddInt(base_offset, 24), <<\h4D82, \h0020>>),
                AREntry(AddInt(base_offset, 28), <<\h7FE3, \hFB78>>),
                AREntry(AddInt(base_offset, 32), <<\h90C3, \h0078>>),
                AREntry(AddInt(base_offset, 36), <<\h4E80, \h0020>>)>>)

\* the list ActivateARCodesFor hands to ApplyCodes
ActivateARCodesFor(game, region) ==
    CASE region = 0 /\ game = 1 ->
           <<ARCode("", TRUE, TRUE,
                    <<AREntry(<<\h0409, \h8EE4>>, <<\hEC01, \h0072>>),
                      AREntry(<<\h0409, \h9138>>, <<\h6000, \h0000>>),
                      AREntry(<<\h0418, \h3A8C>>, <<\h6000, \h0000>>),
                      AREntry(<<\h0418, \h3A64>>, <<\h6000, \h0000>>),
                      AREntry(<<\h0417, \h661C>>, <<\h6000, \h0000>>),
                      AREntry(<<\h042F, \hB5B4>>, <<\hD23F, \h009C>>)>>),
             beamChangeCode_mp1(<<\h0418, \hE544>>)>>
      [] region = 0 /\ game = 2 ->
           <<ARCode("", TRUE, TRUE,
                    <<AREntry(<<\h0408, \hCCC8>>, <<\hC043, \h0184>>),
                      AREntry(<<\h0408, \hCD1C>>, <<\h6000, \h0000>>),
                      AREntry(<<\h0414, \h7F70>>, <<\h6000, \h0000>>),
                      AREntry(<<\h0414, \h7F98>>, <<\h6000, \h0000>>),
                      AREntry(<<\h0413, \h5B20>>, <<\h6000, \h0000>>),
                      AREntry(<<\h0408, \hBB48>>, <<\h6000, \h0000>>),
                      AREntry(<<\h0408, \hBB18>>, <<\h6000, \h0000>>),
                      AREntry(<<\h0430, \h54A0>>, <<\hD23F, \h009C>>)>>),
             beamChangeCode_mp2(<<\h0418, \hCC88>>)>>
      [] region = 0 /\ game = 3 ->
           <<ARCode("", TRUE, TRUE,
                    <<AREntry(<<\h0408, \h0AC0>>, <<\hEC01, \h0072>>),
                      AREntry(<<\h0414, \hE094>>, <<\h6000, \h0000>>),
                      AREntry(<<\h0414, \hE06C>>, <<\h6000, \h0000>>),
                      AREntry(<<\h0413, \h4328>>, <<\h6000, \h0000>>),
                      AREntry(<<\h0413, \h3970>>, <<\h6000, \h0000>>),
                      AREntry(<<\h0400, \hAB58>>, <<\h4BFF, \hAD29>>),
                      AREntry(<<\h0408, \h0D44>>, <<\h6000, \h0000>>)>>),
             controlStateHook_mp3(<<\h0400, \h5880>>, TRUE)>>
      [] region = 1 /\ game = 1 ->
           <<ARCode("", TRUE, TRUE,
                    <<AREntry(<<\h0409, \h9068>>, <<\hEC01, \h0072>>),
                      AREntry(<<\h0409, \h92C4>>, <<\h6000, \h0000>>),
                      AREntry(<<\h0418, \h3CFC>>, <<\h6000, \h0000>>),
                      AREntry(<<\h0418, \h3D24>>, <<\h6000, \h0000>>),
                      AREntry(<<\h0417, \h68B4>>, <<\h6000, \h0000>>),
                      AREntry(<<\h042F, \hB84C>>, <<\hD23F, \h009C>>)>>),
             beamChangeCode_mp1(<<\h0418, \hE7DC>>)>>
      [] region = 1 /\ game = 2 ->
           <<ARCode("", TRUE, TRUE,
                    <<AREntry(<<\h0408, \hE30C>>, <<\hC043, \h0184>>),
                      AREntry(<<\h0408, \hE360>>, <<\h6000, \h0000>>),
                      AREntry(<<\h0414, \h96E4>>, <<\h6000, \h0000>>),
                      AREntry(<<\h0414, \h970C>>, <<\h6000, \h0000>>),
                      AREntry(<<\h0413, \h7240>>, <<\h6000, \h0000>>),
                      AREntry(<<\h0408, \hD18C>>, <<\h6000, \h0000>>),
                      AREntry(<<\h0408, \hD15C>>, <<\h6000, \h0000>>),
                      AREntry(<<\h0430, \h7D2C>>, <<\hD23F, \h009C>>)>>),
             beamChangeCode_mp2(<<\h0418, \hE41C>>)>>
      [] region = 1 /\ game = 3 ->
           <<ARCode("", TRUE, TRUE,
                    <<AREntry(<<\h0408, \h0AB8>>, <<\hEC01, \h0072>>),
                      AREntry(<<\h0414, \hD9E0>>, <<\h6000, \h0000>>),
                      AREntry(<<\h0414, \hD9B8>>, <<\h6000, \h0000>>),
                      AREntry(<<\h0413, \h3C74>>, <<\h6000, \h0000>>),
                      AREntry(<<\h0413, \h32BC>>, <<\h6000, \h0000>>),
                      AREntry(<<\h0400, \hAB58>>, <<\h4BFF, \hAD29>>),
                      AREntry(<<\h0408, \h0D44>>, <<\h6000, \h0000>>)>>),
             controlStateHook_mp3(<<\h0400, \h5880>>, FALSE)>>
      [] OTHER -> <<>>

(***************************************************************************)
(* LoadCodes and SaveCodes.  A string is the sequence of its characters,   *)
(* an IniFile the lines of its sections ActionReplay and                   *)
(* ActionReplay_Enabled.                                                   *)
(***************************************************************************)
HexDigits == <<"0", "1", "2", "3", "4", "5", "6", "7", "8", "9", "A", "B", "C", "D", "E", "F">>
LowerHexDigits ==
    <<"0", "1", "2", "3", "4", "5", "6", "7", "8", "9", "a", "b", "c", "d", "e", "f">>

isxdigit(c) == \E i \in 1..16 : c = HexDigits[i] \/ c = LowerHexDigits[i]

DigitValue(c) ==
    IF isxdigit(c) THEN (CHOOSE i \in 1..16 : c = HexDigits[i] \/ c = LowerHexDigits[i]) - 1
    ELSE 0

\* the number a string of at most four hexadecimal digits denotes
RECURSIVE HexValue(_)
HexValue(str) ==
    IF str = <<>> THEN 0
    ELSE HexValue(SubSeq(str, 1, Len(str) - 1)) * 16 + DigitValue(str[Len(str)])

\* TryParse("0x" + piece, &out) for a piece of eight characters: its result,
\* and the u32 it stores when it succeeds
TryParse(piece) == \A i \in 1..Len(piece) : isxdigit(piece[i])
Parsed(piece) == <<HexValue(SubSeq(piece, 1, 4)), HexValue(SubSeq(piece, 5, 8))>>

\* "%04X" of a 16-bit half, and StringFromFormat("%08X %08X", cmd_addr, value)
Hex4(n) ==
    <<HexDigits[((n \div 4096) % 16) + 1], HexDigits[((n \div 256) % 16) + 1],
      HexDigits[((n \div 16) % 16) + 1], HexDigits[(n % 16) + 1]>>

StringFromFormat(cmd_addr, value) ==
    Hex4(cmd_addr[1]) \o Hex4(cmd_addr[2]) \o <<" ">> \o Hex4(value[1]) \o Hex4(value[2])

\* SplitString: the pieces std::getline cuts str into at delim
RECURSIVE SplitFrom(_, _, _, _)
SplitFrom(str, delim, piece, output) ==
    IF str = <<>> THEN (IF piece = <<>> THEN output ELSE Append(output, piece))
    ELSE IF Head(str) = delim THEN SplitFrom(Tail(str), delim, <<>>, Append(output, piece))
    ELSE SplitFrom(Tail(str), delim, Append(piece, Head(str)), output)

SplitString(str, delim) == SplitFrom(str, delim, <<>>, <<>>)

\* the decryption oracle: one entry per encrypted line, appended to ops
Decrypted(text) ==
    AREntry(<<HexValue(SubSeq(text, 1, 4)), HexValue(SubSeq(text, 5, 8))>>,
            <<0, HexValue(SubSeq(text, 10, 13))>>)

RECURSIVE DecryptARCode(_, _)
DecryptARCode(encrypted_lines, ops) ==
    IF encrypted_lines = <<>> THEN ops
    ELSE DecryptARCode(Tail(encrypted_lines), Append(ops, Decrypted(Head(encrypted_lines))))

GetLines(ini, section) == ini[section]
SetLines(ini, section, lines) == [ini EXCEPT ![section] = lines]

EmptyIni == [ActionReplay |-> <<>>, ActionReplay_Enabled |-> <<>>]

\* the names the lines of ActionReplay_Enabled enable
EnabledNames(enabled_lines) ==
    {Tail(enabled_lines[i]) :
         i \in {j \in 1..Len(enabled_lines) :
                    enabled_lines[j] # <<>> /\ enabled_lines[j][1] = "$"}}

\* a variant that commits the plain instructions of a code and keeps them
CommitPlain_Keep(p) ==
    IF p.current_code.ops # <<>> THEN [p EXCEPT !.codes = Append(@, p.current_code)] ELSE p

\* "if (current_code.ops.size())" at a name line
CommitPlain(p) ==
    IF p.current_code.ops # <<>>
    THEN [p EXCEPT !.codes = Append(@, p.current_code), !.current_code.ops = <<>>]
    ELSE p

\* "if (encrypted_lines.size())" at a name line
CommitEncrypted(p) ==
    IF p.encrypted_lines # <<>>
    THEN [p EXCEPT !.codes = Append(@, [p.current_code EXCEPT
                                           !.ops = DecryptARCode(p.encrypted_lines, @)]),
                   !.current_code.ops = <<>>,
                   !.encrypted_lines = <<>>]
    ELSE p

\* the same two tests after the last line: nothing is cleared
LastPlain(p) ==
    IF p.current_code.ops # <<>> THEN [p EXCEPT !.codes = Append(@, p.current_code)] ELSE p

LastEncrypted(p) ==
    IF p.encrypted_lines # <<>>
    THEN [p EXCEPT !.codes = Append(@, [p.current_code EXCEPT
                                           !.ops = DecryptARCode(p.encrypted_lines, @)]),
                   !.current_code.ops = DecryptARCode(p.encrypted_lines, @)]
    ELSE p

\* a line that begins with '$'
NameLine(p, line, enabled_names, is_local) ==
    [CommitEncrypted(CommitPlain(p)) EXCEPT
        !.current_code.name = Tail(line),
        !.current_code.active = Tail(line) \in enabled_names,
        !.current_code.user_defined = is_local]

\* a line that is neither a pair of 8-character pieces nor a 4-4-5 group
Unreadable(p, line) == p

\* the pieces of a line cut at '-'
EncryptedLine(p, line, pieces) ==
    IF Len(pieces) = 3 /\ Len(pieces[1]) = 4 /\ Len(pieces[2]) = 4 /\ Len(pieces[3]) = 5
    THEN [p EXCEPT !.encrypted_lines = Append(@, pieces[1] \o pieces[2] \o pieces[3])]
    ELSE Unreadable(p, line)

\* the pieces of a line cut at ' '
InstructionLine(p, line, pieces) ==
    IF Len(pieces) = 2 /\ Len(pieces[1]) = 8 /\ Len(pieces[2]) = 8
    THEN IF TryParse(pieces[1]) /\ TryParse(pieces[2])
         THEN [p EXCEPT !.current_code.ops =
                            Append(@, AREntry(Parsed(pieces[1]), Parsed(pieces[2])))]
         ELSE [p EXCEPT !.alerts =
                   @ \o << <<"Action Replay Error: invalid AR code line: %s", line>> >>
                     \o (IF ~TryParse(pieces[1]) THEN << <<"The address is invalid">> >>
                         ELSE <<>>)
                     \o (IF ~TryParse(pieces[2]) THEN << <<"The value is invalid">> >>
                         ELSE <<>>)]
    ELSE EncryptedLine(p, line, SplitString(line, "-"))

\* the body of the loop over the lines of section ActionReplay
ParseLine(p, line, enabled_names, is_local) ==
    IF line = <<>> THEN p
    ELSE IF line[1] = "$" THEN NameLine(p, line, enabled_names, is_local)
    ELSE InstructionLine(p, line, SplitString(line, " "))

RECURSIVE ParseLines(_, _, _, _)
ParseLines(p, lines, enabled_names, is_local) ==
    IF lines = <<>> THEN p
    ELSE ParseLines(ParseLine(p, Head(lines), enabled_names, is_local), Tail(lines),
                    enabled_names, is_local)

\* one round of the loop over the two IniFiles; unset is what the flags of a
\* default-constructed ARCode hold
ParseIni(out, ini, enabled_names, is_local, unset) ==
    LastEncrypted(LastPlain(
        ParseLines([codes |-> out.codes, alerts |-> out.alerts,
                    current_code |-> ARCode(<<>>, unset.active, unset.user_defined, <<>>),
                    encrypted_lines |-> <<>>],
                   GetLines(ini, "ActionReplay"), enabled_names, is_local)))

\* the codes LoadCodes returns and the alerts it raises
LoadCodes(global, local, unset) ==
    ParseIni(ParseIni([codes |-> <<>>, alerts |-> <<>>], global,
                      EnabledNames(GetLines(local, "ActionReplay_Enabled")), FALSE, unset),
             local, EnabledNames(GetLines(local, "ActionReplay_Enabled")), TRUE, unset)

\* a variant that writes every code to section ActionReplay
IsUserDefined_All(code) == TRUE

\* "if (code.user_defined)"
IsUserDefined(code) == code.user_defined

\* the lines of one code in section ActionReplay
RECURSIVE OpLines(_)
OpLines(ops) ==
    IF ops = <<>> THEN <<>>
    ELSE <<StringFromFormat(Head(ops).cmd_addr, Head(ops).value)>> \o OpLines(Tail(ops))

\* the loop of SaveCodes over codes
RECURSIVE SaveLines(_, _, _)
SaveLines(codes, lines, enabled_lines) ==
    IF codes = <<>> THEN [lines |-> lines, enabled_lines |-> enabled_lines]
    ELSE SaveLines(Tail(codes),
                   IF IsUserDefined(Head(codes))
                   THEN lines \o << <<"$">> \o Head(codes).name >> \o OpLines(Head(codes).ops)
                   ELSE lines,
                   IF Head(codes).active
                   THEN Append(enabled_lines, <<"$">> \o Head(codes).name)
                   ELSE enabled_lines)

\* the IniFile SaveCodes leaves
SaveCodes(ini, codes) ==
    SetLines(SetLines(ini, "ActionReplay_Enabled", SaveLines(codes, <<>>, <<>>).enabled_lines),
             "ActionReplay", SaveLines(codes, <<>>, <<>>).lines)

\* no CUCode_CARD has been constructed: the mail queue is empty
NoDSP ==
    [ucode |-> "none", mails |-> <<>>, interrupts |-> 0, constructed |-> 0,
     last |-> [op |-> "none", mail |-> <<0, 0>>, mails |-> <<>>, interrupts |-> 0,
               calls |-> <<>>]]

\* no IniFile has been read or written
NoFiles ==
    /\ global_ini = EmptyIni
    /\ local_ini = EmptyIni
    /\ arCodes = <<>>
    /\ loaded = <<>>
    /\ saved = FALSE

(***************************************************************************)
(* RunAllActive: detection of the running title                            *)
(***************************************************************************)
\* <<game_id, region_id>> from the signature the guest holds at 0x80074000
DetectGame(m) ==
    LET game_sig == HostRead_Instruction(m, <<\h8007, \h4000>>)
        region_diff == HostRead_U32(m, <<\h800C, \hC000>>)
    IN  CASE game_sig = <<\h9001, \h0024>> -> <<3, 0>>
          [] game_sig = <<\h93FD, \h0008>> -> <<3, 1>>
          [] game_sig = <<\h4800, \h08D1>> -> <<0, 0>>
          [] game_sig = <<\h7EE3, \hBB78>> -> <<0, 1>>
          [] game_sig = <<\h7C6F, \h1B78>> -> <<1, 0>>
          [] game_sig = <<\h9003, \h0028>> -> <<1, 1>>
          [] game_sig = <<\h9001, \h0020>> ->
               IF region_diff = <<\h981D, \h005E>> THEN <<2, 0>>
               ELSE IF region_diff = <<\h8803, \h005D>> THEN <<2, 1>>
               ELSE <<-1, -1>>
          [] OTHER -> <<-1, -1>>

\* primeOne_NTSC.  The angle, the speed, the field of view and the beam and
\* visor switches come from the host's input devices: in is one such input.
primeOne_NTSC(m, in) ==
    LET Fov(m6, camera_base) ==
            PokeU32(PokeU32(PokeU32(m6, AddInt(camera_base, 356), in.fov),
                            <<\h805C, \h0E38>>, in.fov),
                    <<\h805C, \h0E3C>>, in.fov)
        Camera(m6, camera_ptr, camera_offset) ==
            Fov(m6, HostRead_U32(m6, AddInt(camera_ptr, camera_offset + 4)))
        Visor(m5, visor_base) ==
            IF in.visor_id # -1
               /\ HostRead_U32(m5, AddInt(visor_base, in.visor_off * 8 + 48)) # <<0, 0>>
            THEN PokeU32(m5, AddInt(visor_base, 28), U32(in.visor_id))
            ELSE m5
        Beam(m4) ==
            IF in.beam_id # -1
            THEN PokeU32(PokeU32(m4, <<\h804A, \h79F4>>, U32(in.beam_id)),
                         <<\h804A, \h79F0>>, <<0, 1>>)
            ELSE m4
        Cameras(m6) ==
            Camera(m6, HostRead_U32(m6, <<\h804B, \hFC30>>),
                   (HostRead_U32(m6, <<\h804C, \h4A08>>)[1] % 1024) * 8)
        Visors(m5) == Cameras(Visor(m5, HostRead_U32(m5, <<\h804B, \hFCD4>>)))
    IN  IF HostRead_U8(m, <<\h804C, \h00B3>>) # 0
        THEN PokeU32(m, <<\h804D, \h3D38>>, <<0, 0>>)
        ELSE Visors(Beam(PokeU32(PokeU32(PokeU32(PokeU32(m, <<\h804D, \h3FFC>>,
                                                         in.verticalAngle),
                                                 <<\h804C, \h10EC>>, in.verticalAngle),
                                         <<\h804D, \h3D74>>, <<0, 0>>),
                                 <<\h804D, \h3D38>>, in.horizontalSpeed)))

\* the per-title camera function RunAllActive calls for the detected title
TitleHack(m, game_id, region_id, in) ==
    IF game_id = 0 /\ region_id = 0 THEN primeOne_NTSC(m, in) ELSE m

(***************************************************************************)
(* Threads and operations                                                  *)
(***************************************************************************)
Threads == {"cpu", "ui"}

IdleRun ==
    [game_id |-> -1, region_id |-> -1, ci |-> 0, ei |-> 0, keep |-> <<>>,
     skip_count |-> 0, val_last |-> <<0, 0>>, do_fill_and_slide |-> FALSE,
     do_memory_copy |-> FALSE, res |-> "continue"]

\* a variant that never returns early
CheatsEnabled_Always(flag) == TRUE

\* "if (!SConfig::GetInstance().bEnableCheats) return;"
CheatsEnabled(flag) == flag

\* a variant that copies the whole list
CopyIfActive_All(codes) == codes

\* std::copy_if(..., [](const ARCode& code) { return code.active; })
CopyIfActive(codes) == SelectSeq(codes, LAMBDA c : c.active)

\* a variant that inserts at the front
EmplaceBack_Front(codes, code) == <<code>> \o codes

\* s_active_codes.emplace_back(std::move(code))
EmplaceBack(codes, code) == Append(codes, code)

\* a variant that erases nothing
RemoveIf_Nothing(codes, keep) == codes

\* erase(remove_if(...)): keep[i] is the result RunCodeLocked returned for codes[i]
RECURSIVE RemoveIf(_, _)
RemoveIf(codes, keep) ==
    IF codes = <<>> THEN <<>>
    ELSE (IF Head(keep) THEN <<Head(codes)>> ELSE <<>>) \o RemoveIf(Tail(codes), Tail(keep))

\* a variant that takes the mutex without waiting for it
lock_guard_NoWait(t) == s_lock' = t

\* std::lock_guard<std::mutex> guard(s_lock): blocks until the mutex is free
lock_guard(t) == s_lock = "none" /\ s_lock' = t

\* the guard's destructor
unlock(t) == s_lock' = "none"

Goto(t, where) == pc' = [pc EXCEPT ![t] = where]

\* the thread returns from the operation it executes
ReturnTo(t) ==
    /\ pc' = [pc EXCEPT ![t] = ret[t]]
    /\ ret' = [ret EXCEPT ![t] = "idle"]
    /\ cur' = IF ret[t] = "idle" THEN cur
              ELSE [cur EXCEPT ![t] = [op |-> "RunAllActive", en |-> TRUE]]

\* the arguments of the operations, one field per parameter: codes of
\* ApplyCodes, code of AddCode, enable of EnableSelfLogging
NoArg == [codes |-> <<>>, code |-> [name |-> "", active |-> FALSE, user_defined |-> FALSE,
                                   ops |-> <<>>],
          enable |-> FALSE]

\* the thread enters operation op: its first statement has not run yet
InvokeWithin(t, op, a, bound) ==
    /\ pc[t] = "idle"
    /\ calls[t] < bound
    /\ pc' = [pc EXCEPT ![t] = op]
    /\ arg' = [arg EXCEPT ![t] = a]
    /\ cur' = [cur EXCEPT ![t] = [op |-> op, en |-> FALSE]]
    /\ calls' = [calls EXCEPT ![t] = @ + 1]

Invoke(t, op, a) == InvokeWithin(t, op, a, IF t = "cpu" THEN MaxTicks ELSE MaxHostCalls)

NoMem == [a \in {} |-> 0]

\* the history of a store no pass has run on
NoPass == [codes |-> <<>>, log0 |-> <<>>, got0 |-> <<>>, ran |-> <<>>, done |-> 0,
           since |-> {}, mem |-> NoMem, left |-> <<>>, fin |-> <<>>, visits |-> 0]

\* what a pass starts from: guest memory and the active codes, and beside
\* them what earlier passes and the host have left in the statics
PassBegins(p) ==
    [p EXCEPT !.codes = s_active_codes, !.log0 = s_internal_log, !.got0 = got_log,
              !.ran = <<>>, !.mem = mem, !.visits = 0,
              !.left = [s_use_internal_log |-> s_use_internal_log,
                        s_disable_logging |-> s_disable_logging,
                        s_current_code |-> s_current_code,
                        s_internal_log |-> s_internal_log]]

\* what a pass ends with
PassEnds(p) ==
    [p EXCEPT !.done = @ + 1, !.since = {},
              !.fin = Append(@, [mem |-> p.mem, codes |-> p.codes, left |-> p.left,
                                 mem_end |-> mem, codes_end |-> s_active_codes])]

files == <<global_ini, local_ini, arCodes, loaded, saved>>
store == <<s_active_codes, s_internal_log, s_use_internal_log, s_disable_logging>>
locals == <<run, pass, hist, wr, mem0, s_current_code>>
host == <<bEnableCheats, last_game_running, alerts, got_log>>

(***************************************************************************)
(* What the host may hand to the store, and what the guest may hold        *)
(***************************************************************************)
GoodCode == ARCode("Good", TRUE, TRUE, <<AREntry(<<\h0010, \h0000>>, <<0, 1>>)>>)

BadCode ==
    ARCode("Bad", TRUE, TRUE,
           <<AREntry(<<\h0010, \h0004>>, <<0, 2>>), AREntry(<<0, \h2500>>, <<0, 1>>)>>)

OffCode == ARCode("Off", FALSE, TRUE, <<AREntry(<<\h0010, \h0008>>, <<0, 3>>)>>)

HostCodes == {GoodCode, BadCode, OffCode}

HostCodeLists == {<<BadCode, OffCode, GoodCode>>, <<GoodCode>>}

\* what the input devices report to one call of the camera function
HostInputs ==
    {[verticalAngle |-> <<0, 0>>, horizontalSpeed |-> <<0, 0>>, beam_id |-> -1,
      visor_id |-> -1, visor_off |-> 0, fov |-> <<\h4270, 0>>],
     [verticalAngle |-> <<\h3F80, 0>>, horizontalSpeed |-> <<\hBF80, 0>>, beam_id |-> 2,
      visor_id |-> 2, visor_off |-> 5, fov |-> <<\h42B4, 0>>]}

\* a guest running Metroid Prime (NTSC)
PrimeOneMem == PokeU32(NoMem, <<\h8007, \h4000>>, <<\h4800, \h08D1>>)

GuestImages == {NoMem, PrimeOneMem}

(***************************************************************************)
(* ApplyCodes                                                              *)
(***************************************************************************)
ApplyCodes_Call(codes) ==
    /\ Invoke("ui", "ApplyCodes", [NoArg EXCEPT !.codes = codes])
    /\ UNCHANGED <<store, locals, host, s_lock, mem, ret>>
    /\ UNCHANGED <<files, dsp>>

ApplyCodes_Gate(t) ==
    /\ pc[t] = "ApplyCodes"
    /\ IF CheatsEnabled(bEnableCheats)
       THEN /\ cur' = [cur EXCEPT ![t].en = bEnableCheats]
            /\ Goto(t, "ApplyCodes_lock")
            /\ UNCHANGED ret
       ELSE ReturnTo(t)
    /\ UNCHANGED <<store, locals, host, s_lock, mem, arg, calls>>
    /\ UNCHANGED <<files, dsp>>

ApplyCodes_Lock(t) ==
    /\ pc[t] = "ApplyCodes_lock"
    /\ lock_guard(t)
    /\ Goto(t, "ApplyCodes_body")
    /\ UNCHANGED <<store, locals, host, mem, arg, ret, cur, calls>>
    /\ UNCHANGED <<files, dsp>>

\* a variant whose guard outlives the call: the mutex stays locked
ApplyCodes_Body_KeepsLock(t) ==
    /\ pc[t] = "ApplyCodes_body"
    /\ s_disable_logging' = FALSE
    /\ s_active_codes' = CopyIfActive(arg[t].codes)
    /\ pass' = [pass EXCEPT !.since = @ \cup {"ApplyCodes"}]
    /\ ReturnTo(t)
    /\ UNCHANGED <<s_internal_log, s_use_internal_log, run, hist, wr, mem0, s_current_code,
                   host, mem, arg, calls, s_lock>>
    /\ UNCHANGED <<files, dsp>>

ApplyCodes_Body(t) ==
    /\ pc[t] = "ApplyCodes_body"
    /\ s_disable_logging' = FALSE
    /\ s_active_codes' = CopyIfActive(arg[t].codes)
    /\ pass' = [pass EXCEPT !.since = @ \cup {"ApplyCodes"}]
    /\ unlock(t)
    /\ ReturnTo(t)
    /\ UNCHANGED <<s_internal_log, s_use_internal_log, run, hist, wr, mem0, s_current_code,
                   host, mem, arg, calls>>
    /\ UNCHANGED <<files, dsp>>

(***************************************************************************)
(* AddCode                                                                 *)
(***************************************************************************)
AddCode_Call(code) ==
    /\ Invoke("ui", "AddCode", [NoArg EXCEPT !.code = code])
    /\ UNCHANGED <<store, locals, host, s_lock, mem, ret>>
    /\ UNCHANGED <<files, dsp>>

AddCode_Gate(t) ==
    /\ pc[t] = "AddCode"
    /\ cur' = [cur EXCEPT ![t].en = bEnableCheats]
    /\ IF CheatsEnabled(bEnableCheats) /\ arg[t].code.active
       THEN Goto(t, "AddCode_lock")
       ELSE Goto(t, "idle")
    /\ UNCHANGED <<store, locals, host, s_lock, mem, arg, ret, calls>>
    /\ UNCHANGED <<files, dsp>>

AddCode_Lock(t) ==
    /\ pc[t] = "AddCode_lock"
    /\ lock_guard(t)
    /\ Goto(t, "AddCode_body")
    /\ UNCHANGED <<store, locals, host, mem, arg, ret, cur, calls>>
    /\ UNCHANGED <<files, dsp>>

AddCode_Body(t) ==
    /\ pc[t] = "AddCode_body"
    /\ s_disable_logging' = FALSE
    /\ s_active_codes' = EmplaceBack(s_active_codes, arg[t].code)
    /\ pass' = [pass EXCEPT !.since = @ \cup {"AddCode"}]
    /\ unlock(t)
    /\ Goto(t, "idle")
    /\ UNCHANGED <<s_internal_log, s_use_internal_log, run, hist, wr, mem0, s_current_code,
                   host, mem, arg, ret, cur, calls>>
    /\ UNCHANGED <<files, dsp>>

(***************************************************************************)
(* EnableSelfLogging, GetSelfLog, ClearSelfLog                             *)
(***************************************************************************)
EnableSelfLogging_Call(enable) ==
    /\ Invoke("ui", "EnableSelfLogging", [NoArg EXCEPT !.enable = enable])
    /\ UNCHANGED <<store, locals, host, s_lock, mem, ret>>
    /\ UNCHANGED <<files, dsp>>

EnableSelfLogging(t) ==
    /\ pc[t] = "EnableSelfLogging"
    /\ cur' = [cur EXCEPT ![t].en = bEnableCheats]
    /\ s_use_internal_log' = arg[t].enable
    /\ Goto(t, "idle")
    /\ UNCHANGED <<s_active_codes, s_internal_log, s_disable_logging, locals, host, s_lock,
                   mem, arg, ret, calls>>
    /\ UNCHANGED <<files, dsp>>

GetSelfLog_Call ==
    /\ Invoke("ui", "GetSelfLog", NoArg)
    /\ UNCHANGED <<store, locals, host, s_lock, mem, ret>>
    /\ UNCHANGED <<files, dsp>>

GetSelfLog_Lock(t) ==
    /\ pc[t] = "GetSelfLog"
    /\ cur' = [cur EXCEPT ![t].en = bEnableCheats]
    /\ lock_guard(t)
    /\ Goto(t, "GetSelfLog_body")
    /\ UNCHANGED <<store, locals, host, mem, arg, ret, calls>>
    /\ UNCHANGED <<files, dsp>>

GetSelfLog_Body(t) ==
    /\ pc[t] = "GetSelfLog_body"
    /\ got_log' = s_internal_log
    /\ unlock(t)
    /\ Goto(t, "idle")
    /\ UNCHANGED <<store, locals, bEnableCheats, last_game_running, alerts, mem, arg, ret,
                   cur, calls>>
    /\ UNCHANGED <<files, dsp>>

ClearSelfLog_Call ==
    /\ Invoke("ui", "ClearSelfLog", NoArg)
    /\ UNCHANGED <<store, locals, host, s_lock, mem, ret>>
    /\ UNCHANGED <<files, dsp>>

ClearSelfLog_Lock(t) ==
    /\ pc[t] = "ClearSelfLog"
    /\ cur' = [cur EXCEPT ![t].en = bEnableCheats]
    /\ lock_guard(t)
    /\ Goto(t, "ClearSelfLog_body")
    /\ UNCHANGED <<store, locals, host, mem, arg, ret, calls>>
    /\ UNCHANGED <<files, dsp>>

ClearSelfLog_Body(t) ==
    /\ pc[t] = "ClearSelfLog_body"
    /\ s_internal_log' = <<>>
    /\ unlock(t)
    /\ Goto(t, "idle")
    /\ UNCHANGED <<s_active_codes, s_use_internal_log, s_disable_logging, locals, host, mem,
                   arg, ret, cur, calls>>
    /\ UNCHANGED <<files, dsp>>

\* the host changes its "enable cheats" setting
SetCheats ==
    /\ bEnableCheats' = ~bEnableCheats
    /\ UNCHANGED <<store, locals, last_game_running, alerts, got_log, s_lock, mem, pc, arg,
                   ret, cur, calls>>
    /\ UNCHANGED <<files, dsp>>

(***************************************************************************)
(* RunAllActive                                                            *)
(***************************************************************************)
RunAllActive_Call ==
    /\ Invoke("cpu", "RunAllActive", NoArg)
    /\ UNCHANGED <<store, locals, host, s_lock, mem, ret>>
    /\ UNCHANGED <<files, dsp>>

\* the emulation loop ticks again, up to bound ticks
RunAllActive_CallWithin(bound) ==
    /\ InvokeWithin("cpu", "RunAllActive", NoArg, bound)
    /\ UNCHANGED <<store, locals, host, s_lock, mem, ret>>
    /\ UNCHANGED <<files, dsp>>

RunAllActive_Gate ==
    /\ pc["cpu"] = "RunAllActive"
    /\ cur' = [cur EXCEPT !["cpu"].en = bEnableCheats]
    /\ IF CheatsEnabled(bEnableCheats)
       THEN Goto("cpu", "RunAllActive_detect")
       ELSE Goto("cpu", "idle")
    /\ UNCHANGED <<store, locals, host, s_lock, mem, arg, ret, calls>>
    /\ UNCHANGED <<files, dsp>>

\* ActivateARCodesFor(game, region) ends in a call of ApplyCodes
Call_ActivateARCodesFor(game, region, back) ==
    /\ pc' = [pc EXCEPT !["cpu"] = "ApplyCodes"]
    /\ arg' = [arg EXCEPT !["cpu"] = [NoArg EXCEPT !.codes = ActivateARCodesFor(game, region)]]
    /\ ret' = [ret EXCEPT !["cpu"] = back]
    /\ cur' = [cur EXCEPT !["cpu"] = [op |-> "ApplyCodes", en |-> FALSE]]

\* the signature switch, and the activation of the title's own codes when
\* the running title has changed
RunAllActive_Detect ==
    /\ pc["cpu"] = "RunAllActive_detect"
    /\ LET Detected(game_id, region_id) ==
               /\ run' = [run EXCEPT !.game_id = game_id, !.region_id = region_id]
               /\ IF game_id \in {0, 1, 2} /\ last_game_running # game_id + 1
                  THEN /\ last_game_running' = game_id + 1
                       /\ Call_ActivateARCodesFor(game_id + 1, region_id,
                                                  "RunAllActive_title")
                  ELSE /\ Goto("cpu", IF game_id = -1 THEN "RunAllActive_lock"
                                      ELSE "RunAllActive_title")
                       /\ UNCHANGED <<last_game_running, arg, ret, cur>>
       IN  Detected(DetectGame(mem)[1], DetectGame(mem)[2])
    /\ UNCHANGED <<store, pass, hist, wr, mem0, s_current_code, bEnableCheats, alerts,
                   got_log, s_lock, mem, calls>>
    /\ UNCHANGED <<files, dsp>>

\* the camera function of the running title; the menu drops the title's
\* codes after it
RunAllActive_Title(in) ==
    /\ pc["cpu"] = "RunAllActive_title"
    /\ mem' = TitleHack(mem, run.game_id, run.region_id, in)
    /\ IF run.game_id = 3 /\ last_game_running # -1
       THEN /\ last_game_running' = -1
            /\ Call_ActivateARCodesFor(-1, run.region_id, "RunAllActive_lock")
       ELSE /\ Goto("cpu", "RunAllActive_lock")
            /\ UNCHANGED <<last_game_running, arg, ret, cur>>
    /\ UNCHANGED <<store, locals, bEnableCheats, alerts, got_log, s_lock, calls>>
    /\ UNCHANGED <<files, dsp>>

\* a variant that leaves the logging latch as it is
RunAllActive_Exit_NoLatch ==
    /\ pc["cpu"] = "RunAllActive_exit"
    /\ pass' = PassEnds(pass)
    /\ unlock("cpu")
    /\ Goto("cpu", "idle")
    /\ UNCHANGED <<store, run, hist, wr, mem0, s_current_code, host, mem, arg, ret, cur,
                   calls>>
    /\ UNCHANGED <<files, dsp>>

\* a variant that starts the pass without the lock
RunAllActive_NoLock ==
    /\ pc["cpu"] = "RunAllActive_lock"
    /\ run' = [IdleRun EXCEPT !.game_id = run.game_id, !.region_id = run.region_id, !.ci = 1]
    /\ pass' = PassBegins(pass)
    /\ Goto("cpu", "remove_if")
    /\ UNCHANGED <<store, hist, wr, mem0, s_current_code, host, s_lock, mem, arg, ret, cur,
                   calls>>
    /\ UNCHANGED <<files, dsp>>

\* a variant that leaves the codes alone while the logging latch is set
RunAllActive_Lock_Latched ==
    /\ pc["cpu"] = "RunAllActive_lock"
    /\ lock_guard("cpu")
    /\ run' = IF s_disable_logging
              THEN [IdleRun EXCEPT !.game_id = run.game_id, !.region_id = run.region_id,
                                   !.ci = Len(s_active_codes) + 1,
                                   !.keep = [k \in 1..Len(s_active_codes) |-> TRUE]]
              ELSE [IdleRun EXCEPT !.game_id = run.game_id, !.region_id = run.region_id,
                                   !.ci = 1]
    /\ pass' = PassBegins(pass)
    /\ Goto("cpu", "remove_if")
    /\ UNCHANGED <<store, hist, wr, mem0, s_current_code, host, mem, arg, ret, cur, calls>>
    /\ UNCHANGED <<files, dsp>>

RunAllActive_Lock ==
    /\ pc["cpu"] = "RunAllActive_lock"
    /\ lock_guard("cpu")
    /\ run' = [IdleRun EXCEPT !.game_id = run.game_id, !.region_id = run.region_id, !.ci = 1]
    /\ pass' = PassBegins(pass)
    /\ Goto("cpu", "remove_if")
    /\ UNCHANGED <<store, hist, wr, mem0, s_current_code, host, mem, arg, ret, cur, calls>>
    /\ UNCHANGED <<files, dsp>>

\* a variant whose skip_count, val_last and pending flags are statics: a
\* run starts from what the run before it left in them
RunCodeLocked_Begin_Statics ==
    /\ pc["cpu"] = "remove_if"
    /\ run.ci <= Len(s_active_codes)
    /\ s_current_code' = run.ci
    /\ s_internal_log' =
           LogInfos([log |-> s_internal_log],
                    << <<"Code Name: %s", s_active_codes[run.ci].name>>,
                       <<"Number of codes: %zu", Len(s_active_codes[run.ci].ops)>> >>).log
    /\ run' = [run EXCEPT !.ei = 1,
                          !.res = IF s_active_codes[run.ci].ops = <<>>
                                  THEN "true" ELSE "continue"]
    /\ hist' = <<>>
    /\ wr' = <<>>
    /\ mem0' = mem
    /\ Goto("cpu", "RunCodeLocked")
    /\ UNCHANGED <<s_active_codes, s_use_internal_log, s_disable_logging, pass, host, s_lock,
                   mem, arg, ret, cur, calls>>
    /\ UNCHANGED <<files, dsp>>

\* RunCodeLocked up to its loop
RunCodeLocked_Begin ==
    /\ pc["cpu"] = "remove_if"
    /\ run.ci <= Len(s_active_codes)
    /\ LET arcode == s_active_codes[run.ci]
       IN  /\ s_current_code' = run.ci
           /\ s_internal_log' =
                  LogInfos([log |-> s_internal_log],
                           << <<"Code Name: %s", arcode.name>>,
                              <<"Number of codes: %zu", Len(arcode.ops)>> >>).log
           /\ run' = [run EXCEPT !.ei = 1, !.skip_count = 0, !.val_last = <<0, 0>>,
                                 !.do_fill_and_slide = FALSE, !.do_memory_copy = FALSE,
                                 !.res = IF arcode.ops = <<>> THEN "true" ELSE "continue"]
    /\ hist' = <<>>
    /\ wr' = <<>>
    /\ mem0' = mem
    /\ Goto("cpu", "RunCodeLocked")
    /\ UNCHANGED <<s_active_codes, s_use_internal_log, s_disable_logging, pass, host, s_lock,
                   mem, arg, ret, cur, calls>>
    /\ UNCHANGED <<files, dsp>>

\* a variant whose loop visits the first entry of the list twice
RunCodeLocked_Entry_Twice ==
    /\ pc["cpu"] = "RunCodeLocked"
    /\ run.res = "continue"
    /\ LET arcode == s_active_codes[run.ci]
           entry == arcode.ops[run.ei]
           st == [mem |-> mem, log |-> s_internal_log, alerts |-> alerts, wr |-> wr,
                  idx |-> run.ei, ok |-> TRUE, skip_count |-> run.skip_count,
                  val_last |-> run.val_last, do_fill_and_slide |-> run.do_fill_and_slide,
                  do_memory_copy |-> run.do_memory_copy, res |-> "continue"]
           Step(out) ==
               /\ mem' = out.mem
               /\ s_internal_log' = out.log
               /\ alerts' = out.alerts
               /\ wr' = out.wr
               /\ run' = [run EXCEPT !.ei = IF hist = <<>> THEN @ ELSE @ + 1,
                                     !.skip_count = out.skip_count,
                                     !.val_last = out.val_last,
                                     !.do_fill_and_slide = out.do_fill_and_slide,
                                     !.do_memory_copy = out.do_memory_copy,
                                     !.res = IF out.res = "continue"
                                                /\ run.ei = Len(arcode.ops)
                                             THEN "true" ELSE out.res]
               /\ hist' = Append(hist,
                      [entry |-> entry, res |-> out.res,
                       skip_pre |-> run.skip_count, skip_post |-> out.skip_count,
                       fs_pre |-> run.do_fill_and_slide, fs_post |-> out.do_fill_and_slide,
                       mc_pre |-> run.do_memory_copy, mc_post |-> out.do_memory_copy,
                       val_pre |-> run.val_last, val_post |-> out.val_last,
                       nwr_pre |-> Len(wr), nwr_post |-> Len(out.wr),
                       rd |-> HostRead_U32(mem, GCAddress(entry.cmd_addr)),
                       logging |-> s_use_internal_log /\ ~s_disable_logging,
                       lines |-> SubSeq(out.log, Len(s_internal_log) + 1, Len(out.log))])
       IN  Step(RunEntry(st, entry))
    /\ pass' = [pass EXCEPT !.visits = @ + 1]
    /\ UNCHANGED <<s_active_codes, s_use_internal_log, s_disable_logging, mem0,
                   s_current_code, bEnableCheats, last_game_running, got_log, s_lock, pc,
                   arg, ret, cur, calls>>
    /\ UNCHANGED <<files, dsp>>

\* one iteration of the loop of RunCodeLocked
RunCodeLocked_Entry ==
    /\ pc["cpu"] = "RunCodeLocked"
    /\ run.res = "continue"
    /\ LET arcode == s_active_codes[run.ci]
           entry == arcode.ops[run.ei]
           st == [mem |-> mem, log |-> s_internal_log, alerts |-> alerts, wr |-> wr,
                  idx |-> run.ei, ok |-> TRUE, skip_count |-> run.skip_count,
                  val_last |-> run.val_last, do_fill_and_slide |-> run.do_fill_and_slide,
                  do_memory_copy |-> run.do_memory_copy, res |-> "continue"]
           Step(out) ==
               /\ mem' = out.mem
               /\ s_internal_log' = out.log
               /\ alerts' = out.alerts
               /\ wr' = out.wr
               /\ run' = [run EXCEPT !.ei = @ + 1, !.skip_count = out.skip_count,
                                     !.val_last = out.val_last,
                                     !.do_fill_and_slide = out.do_fill_and_slide,
                                     !.do_memory_copy = out.do_memory_copy,
                                     !.res = IF out.res = "continue"
                                                /\ run.ei = Len(arcode.ops)
                                             THEN "true" ELSE out.res]
               /\ hist' = Append(hist,
                      [entry |-> entry, res |-> out.res,
                       skip_pre |-> run.skip_count, skip_post |-> out.skip_count,
                       fs_pre |-> run.do_fill_and_slide, fs_post |-> out.do_fill_and_slide,
                       mc_pre |-> run.do_memory_copy, mc_post |-> out.do_memory_copy,
                       val_pre |-> run.val_last, val_post |-> out.val_last,
                       nwr_pre |-> Len(wr), nwr_post |-> Len(out.wr),
                       rd |-> HostRead_U32(mem, GCAddress(entry.cmd_addr)),
                       logging |-> s_use_internal_log /\ ~s_disable_logging,
                       lines |-> SubSeq(out.log, Len(s_internal_log) + 1, Len(out.log))])
       IN  Step(RunEntry(st, entry))
    /\ pass' = [pass EXCEPT !.visits = @ + 1]
    /\ UNCHANGED <<s_active_codes, s_use_internal_log, s_disable_logging, mem0,
                   s_current_code, bEnableCheats, last_game_running, got_log, s_lock, pc,
                   arg, ret, cur, calls>>
    /\ UNCHANGED <<files, dsp>>

\* an iteration of the loop of RunCodeLocked as the history counts it: the
\* steps of RunCodeLocked_Entry are the steps that add one to pass.visits,
\* and the loop can take one whenever it is at the head of an iteration
RunCodeLocked_Visit ==
    /\ pc["cpu"] = "RunCodeLocked"
    /\ run.res = "continue"
    /\ pass' = [pass EXCEPT !.visits = @ + 1]

\* RunCodeLocked has returned: the rest of the predicate of remove_if
RunCodeLocked_Return ==
    /\ pc["cpu"] = "RunCodeLocked"
    /\ run.res # "continue"
    /\ s_internal_log' = LogInfo([log |-> s_internal_log], <<"\n">>).log
    /\ run' = [run EXCEPT !.ci = @ + 1, !.keep = Append(@, run.res = "true")]
    /\ pass' = [pass EXCEPT !.ran = Append(@, [ci |-> run.ci,
                                               arcode |-> s_active_codes[run.ci],
                                               success |-> run.res = "true",
                                               visited |-> Len(hist)])]
    /\ Goto("cpu", "remove_if")
    /\ UNCHANGED <<s_active_codes, s_use_internal_log, s_disable_logging, hist, wr, mem0,
                   s_current_code, host, s_lock, mem, arg, ret, cur, calls>>
    /\ UNCHANGED <<files, dsp>>

\* a variant that reads the flag again before each code and ends the pass
\* when it is false
RunAllActive_Erase_Gated ==
    /\ pc["cpu"] = "remove_if"
    /\ run.ci > Len(s_active_codes) \/ ~CheatsEnabled(bEnableCheats)
    /\ s_active_codes' =
           RemoveIf(s_active_codes,
                    run.keep \o [k \in 1..(Len(s_active_codes) - Len(run.keep)) |-> TRUE])
    /\ Goto("cpu", "RunAllActive_exit")
    /\ UNCHANGED <<s_internal_log, s_use_internal_log, s_disable_logging, locals, host,
                   s_lock, mem, arg, ret, cur, calls>>
    /\ UNCHANGED <<files, dsp>>

RunAllActive_Erase ==
    /\ pc["cpu"] = "remove_if"
    /\ run.ci > Len(s_active_codes)
    /\ s_active_codes' = RemoveIf(s_active_codes, run.keep)
    /\ Goto("cpu", "RunAllActive_exit")
    /\ UNCHANGED <<s_internal_log, s_use_internal_log, s_disable_logging, locals, host,
                   s_lock, mem, arg, ret, cur, calls>>
    /\ UNCHANGED <<files, dsp>>

RunAllActive_Exit ==
    /\ pc["cpu"] = "RunAllActive_exit"
    /\ s_disable_logging' = TRUE
    /\ pass' = PassEnds(pass)
    /\ unlock("cpu")
    /\ Goto("cpu", "idle")
    /\ UNCHANGED <<s_active_codes, s_internal_log, s_use_internal_log, run, hist, wr, mem0,
                   s_current_code, host, mem, arg, ret, cur, calls>>
    /\ UNCHANGED <<files, dsp>>

(***************************************************************************)
(* The store under its two threads                                         *)
(***************************************************************************)
Init ==
    /\ bEnableCheats \in BOOLEAN
    /\ s_lock = "none"
    /\ s_active_codes = <<>>
    /\ s_internal_log = <<>>
    /\ s_use_internal_log = FALSE
    /\ s_disable_logging = FALSE
    /\ s_current_code = 0
    /\ last_game_running = -1
    /\ mem \in GuestImages
    /\ alerts = <<>>
    /\ pc = [t \in Threads |-> "idle"]
    /\ arg = [t \in Threads |-> NoArg]
    /\ ret = [t \in Threads |-> "idle"]
    /\ run = IdleRun
    /\ got_log = <<>>
    /\ cur = [t \in Threads |-> [op |-> "none", en |-> FALSE]]
    /\ calls = [t \in Threads |-> 0]
    /\ pass = NoPass
    /\ hist = <<>>
    /\ wr = <<>>
    /\ mem0 = mem
    /\ NoFiles
    /\ dsp = NoDSP

Next ==
    \/ \E codes \in HostCodeLists : ApplyCodes_Call(codes)
    \/ \E t \in Threads : ApplyCodes_Gate(t)
    \/ \E t \in Threads : ApplyCodes_Lock(t)
    \/ \E t \in Threads : ApplyCodes_Body(t)
    \/ \E code \in HostCodes : AddCode_Call(code)
    \/ AddCode_Gate("ui")
    \/ AddCode_Lock("ui")
    \/ AddCode_Body("ui")
    \/ \E enable \in BOOLEAN : EnableSelfLogging_Call(enable)
    \/ EnableSelfLogging("ui")
    \/ GetSelfLog_Call
    \/ GetSelfLog_Lock("ui")
    \/ GetSelfLog_Body("ui")
    \/ ClearSelfLog_Call
    \/ ClearSelfLog_Lock("ui")
    \/ ClearSelfLog_Body("ui")
    \/ SetCheats
    \/ RunAllActive_Call
    \/ RunAllActive_Gate
    \/ RunAllActive_Detect
    \/ \E in \in HostInputs : RunAllActive_Title(in)
    \/ RunAllActive_Lock
    \/ RunCodeLocked_Begin
    \/ RunCodeLocked_Entry
    \/ RunCodeLocked_Return
    \/ RunAllActive_Erase
    \/ RunAllActive_Exit

Spec == Init /\ [][Next]_vars

\* where a thread stands before a lock_guard on s_lock
LockPoints == {"ApplyCodes_lock", "AddCode_lock", "GetSelfLog", "ClearSelfLog", "RunAllActive_lock"}

\* where a thread stands inside the scope of a lock_guard on s_lock
GuardedPoints ==
    {"ApplyCodes_body", "AddCode_body", "GetSelfLog_body", "ClearSelfLog_body", "remove_if",
     "RunCodeLocked", "RunAllActive_exit"}

\* where a thread stands
Points ==
    LockPoints \cup GuardedPoints
    \cup {"idle", "ApplyCodes", "AddCode", "EnableSelfLogging", "RunAllActive",
          "RunAllActive_detect", "RunAllActive_title"}

\* thread t, inside an operation, takes its next step.  Every step of an
\* operation moves its thread and no other, and the step at a point can be
\* taken whenever the thread stands there, the mutex being free when the
\* point is a lock_guard: so these are the steps of t's operations, told
\* by pc alone.
ThreadSteps(t) ==
    /\ pc[t] # "idle"
    /\ pc[t] \in LockPoints => s_lock = "none"
    /\ \E to \in Points \ {pc[t]} : pc' = [pc EXCEPT ![t] = to]

\* both threads are scheduled: a thread inside an operation goes on, and a
\* thread waiting for the mutex gets it when it is free.  The host and the
\* emulation loop are free to invoke nothing more.
ThreadsRun == \A t \in Threads : WF_pc(ThreadSteps(t))

SpecFair == Spec /\ ThreadsRun

(***************************************************************************)
(* One code under RunCodeLocked: the tick of a store that holds a single   *)
(* code, from the point where RunAllActive takes the lock                  *)
(***************************************************************************)
\* false while the byte at 0x80100000 is not 1: skip one line, two lines,
\* until the endif
IfEqual_OneLine == AREntry(<<\h0810, \h0000>>, <<0, 1>>)
IfEqual_TwoLines == AREntry(<<\h4810, \h0000>>, <<0, 1>>)
IfEqual_UntilEndif == AREntry(<<\h8810, \h0000>>, <<0, 1>>)
Endif == AREntry(<<0, 0>>, <<\h4000, 0>>)
\* writes the byte 1 to 0x80100000
Write8 == AREntry(<<\h0010, \h0000>>, <<0, 1>>)
\* 8-bit and 32-bit writes to 0x80002500
Write8_AR == AREntry(<<\h0000, \h2500>>, <<0, 1>>)
Write32_AR == AREntry(<<\h0400, \h2500>>, <<0, 1>>)
\* the first line of a fill and slide
FillAndSlide == AREntry(<<0, 0>>, <<\h8010, \h0010>>)

Entries ==
    {IfEqual_OneLine, IfEqual_TwoLines, IfEqual_UntilEndif, Endif, Write8, Write8_AR,
     Write32_AR, FillAndSlide}

SeqsUpTo(S, n) == UNION {[1..k -> S] : k \in 0..n}

InitRun ==
    /\ bEnableCheats = TRUE
    /\ s_lock = "none"
    /\ \E ops \in SeqsUpTo(Entries, MaxLen) : s_active_codes = <<ARCode("T", TRUE, TRUE, ops)>>
    /\ s_internal_log = <<>>
    /\ s_use_internal_log = TRUE
    /\ s_disable_logging = FALSE
    /\ s_current_code = 0
    /\ last_game_running = -1
    /\ mem = NoMem
    /\ alerts = <<>>
    /\ pc = [t \in Threads |-> IF t = "cpu" THEN "RunAllActive_lock" ELSE "idle"]
    /\ arg = [t \in Threads |-> NoArg]
    /\ ret = [t \in Threads |-> "idle"]
    /\ run = IdleRun
    /\ got_log = <<>>
    /\ cur = [t \in Threads |-> IF t = "cpu" THEN [op |-> "RunAllActive", en |-> TRUE]
                                ELSE [op |-> "ApplyCodes", en |-> TRUE]]
    /\ calls = [t \in Threads |-> 1]
    /\ pass = [NoPass EXCEPT !.since = {"ApplyCodes"}]
    /\ hist = <<>>
    /\ wr = <<>>
    /\ mem0 = mem
    /\ NoFiles
    /\ dsp = NoDSP

NextRun ==
    \/ RunAllActive_Lock
    \/ RunCodeLocked_Begin
    \/ RunCodeLocked_Entry
    \/ RunCodeLocked_Return
    \/ RunAllActive_Erase
    \/ RunAllActive_Exit

SpecRun == InitRun /\ [][NextRun]_vars

(***************************************************************************)
(* Successive ticks: the store after the host has enabled self-logging and *)
(* applied a list, the emulation thread ticking up to MaxPasses times and   *)
(* the host making one more call                                           *)
(***************************************************************************)
TickCodeLists == {<<GoodCode>>, <<BadCode, GoodCode>>}

\* between two ticks the guest program stores to its memory: it zeroes
\* the bytes the codes have written
Guest_Store ==
    /\ pc["cpu"] = "idle"
    /\ mem # NoMem
    /\ mem' = NoMem
    /\ UNCHANGED <<store, locals, host, s_lock, pc, arg, ret, cur, calls>>
    /\ UNCHANGED <<files, dsp>>

InitTicks ==
    /\ bEnableCheats = TRUE
    /\ s_lock = "none"
    /\ s_active_codes \in TickCodeLists
    /\ s_internal_log = <<>>
    /\ s_use_internal_log = TRUE
    /\ s_disable_logging = FALSE
    /\ s_current_code = 0
    /\ last_game_running = -1
    /\ mem = NoMem
    /\ alerts = <<>>
    /\ pc = [t \in Threads |-> "idle"]
    /\ arg = [t \in Threads |-> NoArg]
    /\ ret = [t \in Threads |-> "idle"]
    /\ run = IdleRun
    /\ got_log = <<>>
    /\ cur = [t \in Threads |-> IF t = "cpu" THEN [op |-> "none", en |-> FALSE]
                                ELSE [op |-> "ApplyCodes", en |-> TRUE]]
    /\ calls = [t \in Threads |-> IF t = "cpu" THEN 0 ELSE MaxHostCalls - 1]
    /\ pass = [NoPass EXCEPT !.since = {"ApplyCodes"}]
    /\ hist = <<>>
    /\ wr = <<>>
    /\ mem0 = mem
    /\ NoFiles
    /\ dsp = NoDSP

NextTicks ==
    \/ \E codes \in HostCodeLists : ApplyCodes_Call(codes)
    \/ ApplyCodes_Gate("ui")
    \/ ApplyCodes_Lock("ui")
    \/ ApplyCodes_Body("ui")
    \/ \E code \in HostCodes : AddCode_Call(code)
    \/ AddCode_Gate("ui")
    \/ AddCode_Lock("ui")
    \/ AddCode_Body("ui")
    \/ \E enable \in BOOLEAN : EnableSelfLogging_Call(enable)
    \/ EnableSelfLogging("ui")
    \/ ClearSelfLog_Call
    \/ ClearSelfLog_Lock("ui")
    \/ ClearSelfLog_Body("ui")
    \/ SetCheats
    \/ Guest_Store
    \/ RunAllActive_CallWithin(MaxPasses)
    \/ RunAllActive_Gate
    \/ RunAllActive_Detect
    \/ RunAllActive_Lock
    \/ RunCodeLocked_Begin
    \/ RunCodeLocked_Entry
    \/ RunCodeLocked_Return
    \/ RunAllActive_Erase
    \/ RunAllActive_Exit

SpecTicks == InitTicks /\ [][NextTicks]_vars

(***************************************************************************)
(* The scenarios: one pass over one code, from a guest memory that holds   *)
(* what the scenario says and marks where it says nothing                  *)
(***************************************************************************)
\* S1: [(0x00100003, 0x000A00FF)]
Scenario_S1 ==
    ARCode("S1", TRUE, TRUE, <<AREntry(<<\h0010, \h0003>>, <<\h000A, \h00FF>>)>>)

\* S2: [(0x02200001, 0x00001234), (0x04300000, 0xAAAAAAAA), (0x04301000, 0xBBBBBBBB)]
Scenario_S2 ==
    ARCode("S2", TRUE, TRUE,
           <<AREntry(<<\h0220, \h0001>>, <<0, \h1234>>),
             AREntry(<<\h0430, \h0000>>, <<\hAAAA, \hAAAA>>),
             AREntry(<<\h0430, \h1000>>, <<\hBBBB, \hBBBB>>)>>)

\* the two writes of S2 after a 16-bit "if equal, else skip two lines":
\* subtype 1, type 1, size 1, address 0x80200000
Scenario_S2_IfEqual ==
    ARCode("S2'", TRUE, TRUE,
           <<AREntry(<<\h4A20, \h0000>>, <<0, \h1234>>),
             AREntry(<<\h0430, \h0000>>, <<\hAAAA, \hAAAA>>),
             AREntry(<<\h0430, \h1000>>, <<\hBBBB, \hBBBB>>)>>)

\* S3: [(0x00000000, 0x08500000), (0x00400000, 0x00000005)]
Scenario_S3 ==
    ARCode("S3", TRUE, TRUE,
           <<AREntry(<<0, 0>>, <<\h0850, \h0000>>),
             AREntry(<<\h0040, \h0000>>, <<0, 5>>)>>)

\* the second line of S3 after a zero code 04 of size 3 whose address bits
\* are 0x00500000: operand 0x86500000
Scenario_S3_Copy ==
    ARCode("S3'", TRUE, TRUE,
           <<AREntry(<<0, 0>>, <<\h8650, \h0000>>),
             AREntry(<<\h0040, \h0000>>, <<0, 5>>)>>)

\* S4: [(0x04600002, 0x00000020)]
Scenario_S4 ==
    ARCode("S4", TRUE, TRUE, <<AREntry(<<\h0460, \h0002>>, <<0, \h0020>>)>>)

\* the operand of S4 under an 8-bit add at 0x80600000: subtype 2, type 0,
\* size 0, command word 0x80600000
Scenario_S4_Add8 ==
    ARCode("S4'", TRUE, TRUE, <<AREntry(<<\h8060, \h0000>>, <<0, \h0020>>)>>)

ScenarioCodes ==
    {Scenario_S1, Scenario_S2, Scenario_S2_IfEqual, Scenario_S3, Scenario_S3_Copy,
     Scenario_S4, Scenario_S4_Add8}

\* the bytes S3 copies, DE AD BE EF CA, and 0x77 after them
ScenarioBytes ==
    << <<\h0000, \hDE>>, <<\h0001, \hAD>>, <<\h0002, \hBE>>, <<\h0003, \hEF>>,
       <<\h0004, \hCA>>, <<\h0005, \h77>> >>

RECURSIVE PokeAll(_, _, _)
PokeAll(m, hi, bytes) ==
    IF bytes = <<>> THEN m
    ELSE PokeAll(Poke(m, <<hi, Head(bytes)[1]>>, Head(bytes)[2]), hi, Tail(bytes))

\* guest memory: 0x11 or nothing in the bytes around the fill of S1, 0x1234
\* or 0x1235 at 0x80200000, the bytes of S3 at 0x80400000, 0x55 in the six
\* bytes at 0x80500000, and F0 01 at 0x80600000
ScenarioImages ==
    {Poke(Poke(PokeAll(PokeAll(
         PokeU16(IF marked
                 THEN Poke(Poke(Poke(Poke(NoMem, <<\h8010, \h0000>>, \h11),
                                     <<\h8010, \h0002>>, \h11),
                                <<\h8010, \h000B>>, \h11),
                           <<\h8010, \h0A04>>, \h11)
                 ELSE NoMem,
                 <<\h8020, \h0000>>, half),
         \h8040, ScenarioBytes),
         \h8050, [k \in 1..6 |-> <<k - 1, \h55>>]),
         <<\h8060, \h0000>>, \hF0), <<\h8060, \h0001>>, \h01) :
         marked \in BOOLEAN, half \in {\h1234, \h1235}}

InitScenario ==
    /\ bEnableCheats = TRUE
    /\ s_lock = "none"
    /\ \E code \in ScenarioCodes : s_active_codes = <<code>>
    /\ s_internal_log = <<>>
    /\ s_use_internal_log \in BOOLEAN
    /\ s_disable_logging = FALSE
    /\ s_current_code = 0
    /\ last_game_running = -1
    /\ mem \in ScenarioImages
    /\ alerts = <<>>
    /\ pc = [t \in Threads |-> IF t = "cpu" THEN "RunAllActive_lock" ELSE "idle"]
    /\ arg = [t \in Threads |-> NoArg]
    /\ ret = [t \in Threads |-> "idle"]
    /\ run = IdleRun
    /\ got_log = <<>>
    /\ cur = [t \in Threads |-> IF t = "cpu" THEN [op |-> "RunAllActive", en |-> TRUE]
                                ELSE [op |-> "ApplyCodes", en |-> TRUE]]
    /\ calls = [t \in Threads |-> 1]
    /\ pass = [NoPass EXCEPT !.since = {"ApplyCodes"}]
    /\ hist = <<>>
    /\ wr = <<>>
    /\ mem0 = mem
    /\ NoFiles
    /\ dsp = NoDSP

SpecScenario == InitScenario /\ [][NextRun]_vars

(***************************************************************************)
(* The dispatch of RunCodeLocked: one pass over one code of up to MaxOps   *)
(* entries of every kind the loop tells apart, with or without a closing   *)
(* write that shows whether the loop came that far                         *)
(***************************************************************************)
MaxOps == 3

\* false while the byte at 0x80100000 is not 1: skip all lines
IfEqual_AllLines == AREntry(<<\hC810, \h0000>>, <<0, 1>>)
\* the zero codes: end of codes, rows, the unknown ones, and the first line
\* of a memory copy to 0x80100030
EndOfCodes == AREntry(<<0, 0>>, <<0, 0>>)
Row == AREntry(<<0, 0>>, <<\h6000, 0>>)
ZeroCode_1 == AREntry(<<0, 0>>, <<\h2000, 0>>)
ZeroCode_5 == AREntry(<<0, 0>>, <<\hA000, 0>>)
ZeroCode_6 == AREntry(<<0, 0>>, <<\hC000, 0>>)
ZeroCode_7 == AREntry(<<0, 0>>, <<\hE000, 0>>)
MemoryCopy == AREntry(<<0, 0>>, <<\h8610, \h0030>>)
\* subtype 3 of type 0
MasterCode == AREntry(<<\hC010, \h0000>>, <<0, 1>>)
\* three 16-bit writes of 0xBEEF from 0x80100020; as the second line of a
\* fill and slide, two writes 0xBEEF apart downwards; as the second line of
\* a memory copy, a bad value
Fill16 == AREntry(<<\h0210, \h0020>>, <<\h0002, \hBEEF>>)
\* the closing write: the byte 0x99 to 0x80100040
ClosingWrite == AREntry(<<\h0010, \h0040>>, <<0, \h0099>>)

DispatchEntries ==
    {IfEqual_OneLine, IfEqual_TwoLines, IfEqual_UntilEndif, IfEqual_AllLines, Endif,
     Write8, Write8_AR, FillAndSlide, MemoryCopy, Fill16, EndOfCodes, Row, ZeroCode_1,
     ZeroCode_5, ZeroCode_6, ZeroCode_7, MasterCode}

DispatchCodes ==
    {ARCode("T", TRUE, TRUE, ops \o closing) :
         ops \in SeqsUpTo(DispatchEntries, MaxOps), closing \in {<<>>, <<ClosingWrite>>}}

\* the byte at 0x80100000 is 0 or 1
DispatchImages == {NoMem, Poke(NoMem, <<\h8010, \h0000>>, 1)}

\* the state at the call of RunAllActive that finds one code of codes
\* active, guest memory one of images, and the log off
InitPass(codes, images) ==
    /\ bEnableCheats = TRUE
    /\ s_lock = "none"
    /\ \E code \in codes : s_active_codes = <<code>>
    /\ s_internal_log = <<>>
    /\ s_use_internal_log = FALSE
    /\ s_disable_logging = FALSE
    /\ s_current_code = 0
    /\ last_game_running = -1
    /\ mem \in images
    /\ alerts = <<>>
    /\ pc = [t \in Threads |-> IF t = "cpu" THEN "RunAllActive_lock" ELSE "idle"]
    /\ arg = [t \in Threads |-> NoArg]
    /\ ret = [t \in Threads |-> "idle"]
    /\ run = IdleRun
    /\ got_log = <<>>
    /\ cur = [t \in Threads |-> IF t = "cpu" THEN [op |-> "RunAllActive", en |-> TRUE]
                                ELSE [op |-> "ApplyCodes", en |-> TRUE]]
    /\ calls = [t \in Threads |-> 1]
    /\ pass = [NoPass EXCEPT !.since = {"ApplyCodes"}]
    /\ hist = <<>>
    /\ wr = <<>>
    /\ mem0 = mem
    /\ NoFiles
    /\ dsp = NoDSP

InitDispatch == InitPass(DispatchCodes, DispatchImages)

SpecDispatch == InitDispatch /\ [][NextRun]_vars

\* the emulation thread runs RunAllActive to its end: the pass holds the
\* lock, waits for nothing and is not suspended
PassRuns ==
    /\ WF_vars(RunAllActive_Lock)
    /\ WF_vars(RunCodeLocked_Begin)
    /\ WF_pass(RunCodeLocked_Visit)
    /\ WF_vars(RunCodeLocked_Return)
    /\ WF_vars(RunAllActive_Erase)
    /\ WF_vars(RunAllActive_Exit)

SpecDispatchFair == SpecDispatch /\ PassRuns

(***************************************************************************)
(* From one run to the next: the store holds two codes, the first of which *)
(* ends on a conditional or on the first line of a fill and slide or of a  *)
(* memory copy, and the emulation thread ticks MaxPasses times             *)
(***************************************************************************)
\* codes whose last entry leaves a skip count or a pending second line when
\* the byte at 0x80100000 is 0
OpenEnded ==
    {<<IfEqual_OneLine>>, <<IfEqual_TwoLines>>, <<IfEqual_UntilEndif>>, <<FillAndSlide>>,
     <<MemoryCopy>>, <<Write8, MemoryCopy>>, <<IfEqual_TwoLines, Row>>}

\* codes whose first entry shows what it was run as
Followers ==
    {<<ClosingWrite>>, <<Fill16>>, <<Endif, ClosingWrite>>, <<MasterCode>>, <<IfEqual_OneLine>>}

CarryCodeLists ==
    {<<ARCode("A", TRUE, TRUE, a), ARCode("B", TRUE, TRUE, b)>> :
         a \in OpenEnded, b \in Followers}

InitCarry ==
    /\ bEnableCheats = TRUE
    /\ s_lock = "none"
    /\ s_active_codes \in CarryCodeLists
    /\ s_internal_log = <<>>
    /\ s_use_internal_log = FALSE
    /\ s_disable_logging = FALSE
    /\ s_current_code = 0
    /\ last_game_running = -1
    /\ mem \in DispatchImages
    /\ alerts = <<>>
    /\ pc = [t \in Threads |-> "idle"]
    /\ arg = [t \in Threads |-> NoArg]
    /\ ret = [t \in Threads |-> "idle"]
    /\ run = IdleRun
    /\ got_log = <<>>
    /\ cur = [t \in Threads |-> IF t = "cpu" THEN [op |-> "none", en |-> FALSE]
                                ELSE [op |-> "ApplyCodes", en |-> TRUE]]
    /\ calls = [t \in Threads |-> IF t = "cpu" THEN 0 ELSE MaxHostCalls]
    /\ pass = [NoPass EXCEPT !.since = {"ApplyCodes"}]
    /\ hist = <<>>
    /\ wr = <<>>
    /\ mem0 = mem
    /\ NoFiles
    /\ dsp = NoDSP

NextCarry ==
    \/ RunAllActive_CallWithin(MaxPasses)
    \/ RunAllActive_Gate
    \/ RunAllActive_Detect
    \/ RunAllActive_Lock
    \/ RunCodeLocked_Begin
    \/ RunCodeLocked_Entry
    \/ RunCodeLocked_Return
    \/ RunAllActive_Erase
    \/ RunAllActive_Exit

SpecCarry == InitCarry /\ [][NextCarry]_vars

(***************************************************************************)
(* The arithmetic of the code functions: one pass over one instruction, a  *)
(* conditional, a RAM write, an add or a fill and slide, whose operands    *)
(* and the guest memory it meets are drawn from the values at the edges of *)
(* the 8-bit, 16-bit and 32-bit ranges                                     *)
(***************************************************************************)
\* the command word with these fields: ARAddr read backwards
CommandWord(subtype, type, size, gcaddr) ==
    <<subtype * 16384 + type * 2048 + size * 512 + gcaddr[1], gcaddr[2]>>

\* gcaddr of the instructions: E = 0x80100000
OperandAddress == <<\h0010, \h0000>>

\* operands of the conditionals and the adds
Operands ==
    {<<0, 0>>, <<0, 1>>, <<0, \h007F>>, <<0, \h0080>>, <<0, \h00FF>>, <<0, \h7FFF>>,
     <<0, \h8000>>, <<0, \hFFFF>>, <<\h7FFF, \hFFFF>>, <<\h8000, 0>>, <<\hFFFF, \hFFFF>>}

\* the 32-bit word guest memory holds at E
MemoryWords ==
    {<<0, 0>>, <<\h0100, 0>>, <<\h7F00, 0>>, <<\h8000, 0>>, <<\hFF00, 0>>, <<\h7FFF, 0>>,
     <<\hFFFF, 0>>, <<\h0001, 0>>, <<\h7FFF, \hFFFF>>, <<\hFFFF, \hFFFF>>,
     <<\h00FF, \hFFF0>>}

\* operands of the RAM writes: the fill counts 0, 2, 4 and 0x2BE of an 8-bit
\* write and 0 and 2 of a 16-bit one; 0xDEADBEEF for the 32-bit ones only
FillOperands ==
    {<<0, \h00AB>>, <<0, \h02CD>>, <<0, \h04EF>>, <<\h0002, \hBEEF>>}

ConditionalCodes ==
    {ARCode("T", TRUE, TRUE, <<AREntry(CommandWord(0, type, size, OperandAddress), v)>>) :
         type \in 1..7, size \in 0..3, v \in Operands}

RamWriteCodes ==
    {ARCode("T", TRUE, TRUE,
            <<AREntry(CommandWord(SUB_RAM_WRITE, 0, size, OperandAddress), d)>>) :
         size \in 0..3, d \in FillOperands}
    \cup {ARCode("T", TRUE, TRUE,
                 <<AREntry(CommandWord(SUB_RAM_WRITE, 0, size, OperandAddress),
                           <<\hDEAD, \hBEEF>>)>>) :
              size \in 2..3}

AddCodes ==
    {ARCode("T", TRUE, TRUE,
            <<AREntry(CommandWord(SUB_ADD_CODE, 0, size, OperandAddress), v)>>) :
         size \in 0..2, v \in Operands}

\* the two lines of a fill and slide: the zero code 04 with the size and the
\* address, then the first value with the value increment, the number of
\* writes and the address increment
SlideCodes ==
    {ARCode("T", TRUE, TRUE,
            <<AREntry(<<0, 0>>, CommandWord(2, 0, size, OperandAddress)),
              AREntry(val, <<val_incr * 256 + write_num, addr_incr>>)>>) :
         size \in 0..2,
         val \in {<<0, 0>>, <<0, \h00FE>>, <<\h1234, \hFFFF>>, <<\hFFFF, \hFFFF>>},
         val_incr \in {0, 1, \h7F, \h80, \hFF},
         write_num \in {0, 1, 3},
         addr_incr \in {0, 1, \h7FFF, \h8000, \hFFFF}}

\* the destination of the memory copies: 0x80100030
CopyAddress == <<\h0010, \h0030>>

\* the two lines of a memory copy: the zero code 04 of size 3 with the
\* destination, then the source, 0x80100000, with the pointer flag, bits
\* 16..23 and the number of bytes; the type bits of the second line are
\* those of a conditional
CopyCodes ==
    {ARCode("T", TRUE, TRUE,
            <<AREntry(<<0, 0>>, CommandWord(2, 0, 3, CopyAddress)),
              AREntry(CommandWord(0, 1, 0, OperandAddress), <<flag * 256 + bad, num_bytes>>)>>) :
         flag \in {0, 1, \h80},
         bad \in {0, 1},
         num_bytes \in {0, 1, 5, \h0031, \h00FF, \h0100, \h0105, \h7FFF, \h8005}}

\* the writes to a pointer: the pointer is the word at E
PointerCodes ==
    {ARCode("T", TRUE, TRUE,
            <<AREntry(CommandWord(SUB_WRITE_POINTER, 0, size, OperandAddress), d)>>) :
         size \in 0..3, d \in FillOperands}

\* the instructions RunCodeLocked has no function for, and those in the
\* self-modification range: the zero codes, subtype 3 of type 0 at every
\* size, and command words from 0x00002000 to 0x00002FFF
UnsupportedCodes ==
    {ARCode("T", TRUE, TRUE, <<e>>) :
         e \in {EndOfCodes, Endif, Row, ZeroCode_1, ZeroCode_5, ZeroCode_6, ZeroCode_7,
                Write8_AR, AREntry(<<0, \h2000>>, <<0, 1>>), AREntry(<<0, \h2FFF>>, <<0, 1>>),
                AREntry(<<0, \h1FFF>>, <<0, 1>>), AREntry(<<0, \h3000>>, <<0, 1>>)}}
    \cup {ARCode("T", TRUE, TRUE,
                 <<AREntry(CommandWord(SUB_MASTER_CODE, 0, size, OperandAddress), <<0, 1>>)>>) :
              size \in 0..3}

\* the adds of 32-bit floats: 1 as an integer and 1.0f as its bits
FloatAddCodes ==
    {ARCode("T", TRUE, TRUE,
            <<AREntry(CommandWord(SUB_ADD_CODE, 0, DATATYPE_32BIT_FLOAT, OperandAddress), v)>>) :
         v \in {<<0, 1>>, <<\h3F80, 0>>}}

OperandCodes ==
    ConditionalCodes \cup RamWriteCodes \cup AddCodes \cup SlideCodes \cup CopyCodes
    \cup PointerCodes \cup UnsupportedCodes \cup FloatAddCodes

\* guest memory: a word at E and nothing else, or pointers into main RAM
\* at E and at 0x80100030 with bytes where the first one points
OperandImages ==
    {PokeU32(NoMem, <<\h8010, \h0000>>, w) : w \in MemoryWords}
    \cup {PokeU32(PokeU32(PokeU32(PokeU32(NoMem, <<\h8010, \h0000>>, <<\h8010, \h0100>>),
                                 <<\h8010, \h0030>>, dest),
                         <<\h8010, \h0100>>, <<\hDEAD, \hBEEF>>),
                 <<\h8010, \h0104>>, <<\hCA77, \h0102>>) :
              dest \in {<<\h8010, \h0102>>, <<\h817F, \hFFFE>>}}

InitOperands == InitPass(OperandCodes, OperandImages)

SpecOperands == InitOperands /\ [][NextRun]_vars

(***************************************************************************)
(* The host reads and writes the listings: LoadCodes of the two IniFiles,  *)
(* SaveCodes of the list it holds, LoadCodes again                         *)
(***************************************************************************)
\* "$A", "$B", "$G"
NameA == <<"$", "A">>
NameB == <<"$", "B">>
NameG == <<"$", "G">>

\* "00100000 00000001" and "0420000a deadBEEF"
Plain1 ==
    <<"0", "0", "1", "0", "0", "0", "0", "0", " ", "0", "0", "0", "0", "0", "0", "0", "1">>

Plain2 ==
    <<"0", "4", "2", "0", "0", "0", "0", "a", " ", "d", "e", "a", "d", "B", "E", "E", "F">>

\* "1A2B-3C4D-5E6F7"
Encrypted1 ==
    <<"1", "A", "2", "B", "-", "3", "C", "4", "D", "-", "5", "E", "6", "F", "7">>

\* "0010000G 00000001": two pieces of eight characters, one of them no number
BadHex ==
    <<"0", "0", "1", "0", "0", "0", "0", "G", " ", "0", "0", "0", "0", "0", "0", "0", "1">>

\* "note": neither form of instruction line
Junk == <<"n", "o", "t", "e">>

ListingLines == {NameA, NameB, Plain1, Plain2, Encrypted1, BadHex, Junk}

\* the listing of the defaults, and the lines of ActionReplay_Enabled with it
Defaults ==
    {[listing |-> <<>>, enabled |-> <<NameB>>],
     [listing |-> <<NameG, <<>>, Plain1>>, enabled |-> <<>>],
     [listing |-> <<NameG, <<>>, Plain1>>, enabled |-> <<NameG, NameA, <<"B">> >>]}

\* what the flags of a default-constructed ARCode may hold
UnsetFlags == [active : BOOLEAN, user_defined : BOOLEAN]

interp == <<bEnableCheats, s_lock, s_active_codes, s_internal_log, s_use_internal_log,
            s_disable_logging, s_current_code, last_game_running, mem, pc, arg, ret, run,
            got_log, cur, calls, pass, hist, wr, mem0>>

\* the host calls LoadCodes(global_ini, local_ini) and keeps what it returns;
\* it reads the listings again once it has saved
LoadCodes_Call ==
    /\ Len(loaded) < MaxLoads
    /\ loaded = <<>> \/ saved
    /\ \E unset \in UnsetFlags :
           LET Returned(r) ==
                   /\ arCodes' = r.codes
                   /\ alerts' = alerts \o r.alerts
                   /\ loaded' = Append(loaded, [local |-> local_ini, saved |-> saved,
                                                codes |-> r.codes, alerts |-> r.alerts])
           IN  Returned(LoadCodes(global_ini, local_ini, unset))
    /\ saved' = FALSE
    /\ UNCHANGED <<interp, global_ini, local_ini, dsp>>

\* the host calls SaveCodes(&local_ini, arCodes) with the list it loaded
SaveCodes_Call ==
    /\ loaded # <<>>
    /\ ~saved
    /\ local_ini' = SaveCodes(local_ini, arCodes)
    /\ saved' = TRUE
    /\ UNCHANGED <<interp, alerts, global_ini, arCodes, loaded, dsp>>

InitIni ==
    /\ bEnableCheats = TRUE
    /\ s_lock = "none"
    /\ s_active_codes = <<>>
    /\ s_internal_log = <<>>
    /\ s_use_internal_log = FALSE
    /\ s_disable_logging = FALSE
    /\ s_current_code = 0
    /\ last_game_running = -1
    /\ mem = NoMem
    /\ alerts = <<>>
    /\ pc = [t \in Threads |-> "idle"]
    /\ arg = [t \in Threads |-> NoArg]
    /\ ret = [t \in Threads |-> "idle"]
    /\ run = IdleRun
    /\ got_log = <<>>
    /\ cur = [t \in Threads |-> [op |-> "none", en |-> FALSE]]
    /\ calls = [t \in Threads |-> 0]
    /\ pass = NoPass
    /\ hist = <<>>
    /\ wr = <<>>
    /\ mem0 = mem
    /\ \E d \in Defaults, listing \in SeqsUpTo(ListingLines, MaxLines) :
           /\ global_ini = [ActionReplay |-> d.listing, ActionReplay_Enabled |-> <<>>]
           /\ local_ini = [ActionReplay |-> listing, ActionReplay_Enabled |-> d.enabled]
    /\ arCodes = <<>>
    /\ loaded = <<>>
    /\ saved = FALSE
    /\ dsp = NoDSP

NextIni ==
    \/ LoadCodes_Call
    \/ SaveCodes_Call

SpecIni == InitIni /\ [][NextIni]_vars

(***************************************************************************)
(* CUCode_CARD: the ucode of the memory card unlock.  The DSP HLE makes    *)
(* one when the game uploads that ucode, hands it the mails the CPU sends, *)
(* and calls Update while it is in place; the CPU reads the mails it       *)
(* queues.                                                                 *)
(***************************************************************************)
MaxUCodes == 2       \* CUCode_CARD objects the DSP HLE makes
MaxInterrupts == 3   \* interrupts Update raises

\* the mails the CPU sends: the unlock command 0xFF000000 and others
Mails == {<<\hFF00, 0>>, <<0, 0>>, <<\hFF00, 1>>, <<\h00FF, 0>>, <<\hFFFF, \hFFFF>>}

\* m_rMailHandler.PushMail(mail)
PushMail(d, mail) ==
    [d EXCEPT !.mails = Append(@, mail),
              !.last.calls = Append(@, <<"PushMail", mail>>)]

\* m_rMailHandler.IsEmpty()
IsEmpty(d) == d.mails = <<>>

\* m_DSPHLE->SetUCode(ucode)
SetUCode(d, ucode) ==
    [d EXCEPT !.ucode = ucode, !.last.calls = Append(@, <<"SetUCode", ucode>>)]

\* DSP::GenerateDSPInterruptFromDSPEmu(DSP::INT_DSP)
GenerateDSPInterruptFromDSPEmu(d) ==
    [d EXCEPT !.interrupts = @ + 1,
              !.last.calls = Append(@, <<"GenerateDSPInterruptFromDSPEmu", "INT_DSP">>)]

\* a call of op with argument mail begins: what it finds
Called(d, op, mail) ==
    [d EXCEPT !.last = [op |-> op, mail |-> mail, mails |-> d.mails,
                        interrupts |-> d.interrupts, calls |-> <<>>]]

\* the rest of the program does not move
EmulatorIdle ==
    UNCHANGED <<bEnableCheats, s_lock, s_active_codes, s_internal_log, s_use_internal_log,
                s_disable_logging, s_current_code, last_game_running, mem, alerts, pc, arg,
                ret, run, got_log, cur, calls, pass, hist, wr, mem0, files>>

\* CUCode_CARD::CUCode_CARD
CUCode_CARD ==
    /\ dsp.ucode # "UCODE_CARD"
    /\ dsp.constructed < MaxUCodes
    /\ dsp' = [PushMail(Called(dsp, "CUCode_CARD", <<0, 0>>), "DSP_INIT")
                 EXCEPT !.ucode = "UCODE_CARD", !.constructed = @ + 1]
    /\ EmulatorIdle

\* CUCode_CARD::~CUCode_CARD, once another ucode is in place
CUCode_CARD_Destroy ==
    /\ dsp.ucode = "UCODE_ROM"
    /\ dsp.last.op # "~CUCode_CARD"
    /\ dsp' = [Called(dsp, "~CUCode_CARD", <<0, 0>>)
                 EXCEPT !.mails = <<>>, !.last.calls = <<"Clear">>]
    /\ EmulatorIdle

\* CUCode_CARD::Update
Update ==
    /\ dsp.ucode = "UCODE_CARD"
    /\ dsp.interrupts < MaxInterrupts
    /\ dsp' = IF ~IsEmpty(dsp)
              THEN GenerateDSPInterruptFromDSPEmu(Called(dsp, "Update", <<0, 0>>))
              ELSE Called(dsp, "Update", <<0, 0>>)
    /\ EmulatorIdle

\* a variant that queues the acknowledgement of the unlock command
HandleMail_Ack(_uMail) ==
    /\ dsp.ucode = "UCODE_CARD"
    /\ dsp' = SetUCode(PushMail(IF _uMail = <<\hFF00, 0>>
                                THEN PushMail(Called(dsp, "HandleMail", _uMail), <<0, 1>>)
                                ELSE Called(dsp, "HandleMail", _uMail),
                                "DSP_DONE"),
                       "UCODE_ROM")
    /\ EmulatorIdle

\* CUCode_CARD::HandleMail
HandleMail(_uMail) ==
    /\ dsp.ucode = "UCODE_CARD"
    /\ dsp' = SetUCode(PushMail(Called(dsp, "HandleMail", _uMail), "DSP_DONE"), "UCODE_ROM")
    /\ EmulatorIdle

\* the CPU reads the mail at the head of the queue
ReadMail ==
    /\ dsp.mails # <<>>
    /\ dsp' = [Called(dsp, "ReadMail", <<0, 0>>) EXCEPT !.mails = Tail(@)]
    /\ EmulatorIdle

InitCard ==
    /\ bEnableCheats = TRUE
    /\ s_lock = "none"
    /\ s_active_codes = <<>>
    /\ s_internal_log = <<>>
    /\ s_use_internal_log = FALSE
    /\ s_disable_logging = FALSE
    /\ s_current_code = 0
    /\ last_game_running = -1
    /\ mem = NoMem
    /\ alerts = <<>>
    /\ pc = [t \in Threads |-> "idle"]
    /\ arg = [t \in Threads |-> NoArg]
    /\ ret = [t \in Threads |-> "idle"]
    /\ run = IdleRun
    /\ got_log = <<>>
    /\ cur = [t \in Threads |-> [op |-> "none", en |-> FALSE]]
    /\ calls = [t \in Threads |-> 0]
    /\ pass = NoPass
    /\ hist = <<>>
    /\ wr = <<>>
    /\ mem0 = mem
    /\ NoFiles
    /\ dsp = NoDSP

NextCard ==
    \/ CUCode_CARD
    \/ CUCode_CARD_Destroy
    \/ Update
    \/ \E _uMail \in Mails : HandleMail(_uMail)
    \/ ReadMail

SpecCard == InitCard /\ [][NextCard]_vars

(***************************************************************************)
(* Properties of one run of RunCodeLocked, read off hist: record i is      *)
(* what the i-th entry the loop visited found and left behind.             *)
(***************************************************************************)
\* the entry reached the dispatch: no skip in force, no composite pending
Dispatched(h) == h.skip_pre = 0 /\ ~h.fs_pre /\ ~h.mc_pre

\* the entry was dispatched as a conditional
IsConditional(h) ==
    /\ Dispatched(h)
    /\ h.entry.cmd_addr # <<0, 0>>
    /\ ~(~LtU32(h.entry.cmd_addr, <<0, \h2000>>) /\ LtU32(h.entry.cmd_addr, <<0, \h3000>>))
    /\ (h.entry.cmd_addr[1] \div 2048) % 8 # 0

\* the comparison the conditional states, on the value guest memory held
ComparisonHolds(h) ==
    LET size == (h.entry.cmd_addr[1] \div 512) % 4
        type == (h.entry.cmd_addr[1] \div 2048) % 8
        a == CASE size = 0 -> <<0, h.rd[1] \div 256>>
               [] size = 1 -> <<0, h.rd[1]>>
               [] OTHER -> h.rd
        b == CASE size = 0 -> <<0, h.entry.value[2] % 256>>
               [] size = 1 -> <<0, h.entry.value[2]>>
               [] OTHER -> h.entry.value
    IN  CASE type = 1 -> a = b
          [] type = 2 -> a # b
          [] type = 3 -> LtS32(a, b)
          [] type = 4 -> LtS32(b, a)
          [] type = 5 -> LtU32(a, b)
          [] type = 6 -> LtU32(b, a)
          [] OTHER -> AndU32(a, b) # <<0, 0>>

\* the entry had no side effect: no guest write, no change of the pending
\* composite or of val_last, the run goes on, and the only trace is the skip
NoSideEffect(h) ==
    /\ h.nwr_post = h.nwr_pre
    /\ h.fs_post = h.fs_pre
    /\ h.mc_post = h.mc_pre
    /\ h.val_post = h.val_pre
    /\ h.res = "continue"
    /\ h.logging => h.lines = << <<"Line skipped">> >>

\* the entry went through normal processing
ExecutedNormally(h) ==
    /\ h.skip_pre = 0
    /\ h.logging => (h.lines # <<>> /\ Head(h.lines)[1] = "--- Running Code: %08x %08x ---")

\* C1 - skip arithmetic: a conditional whose comparison is false sets the
\* skip counter to 1 (subtype 0) or 2 (subtype 1); exactly that many
\* following entries have no side effect other than counting the skip
\* counter down, and the entry after them is executed normally.
C1_SkipArithmetic ==
    \A i \in 1..Len(hist) :
        LET h == hist[i]
            n == (h.entry.cmd_addr[1] \div 16384) + 1
        IN  (IsConditional(h) /\ ~ComparisonHolds(h) /\ n \in {1, 2}) =>
                /\ h.res = "continue"
                /\ h.skip_post = n
                /\ \A j \in 1..n :
                       i + j <= Len(hist) =>
                           /\ NoSideEffect(hist[i + j])
                           /\ hist[i + j].skip_post = n - j
                /\ i + n + 1 <= Len(hist) => ExecutedNormally(hist[i + n + 1])

\* a false two-line conditional, two writes skipped, and the third written
C1_Witness ==
    /\ Len(hist) = 4
    /\ hist[1].entry = IfEqual_TwoLines
    /\ ~ComparisonHolds(hist[1])
    /\ hist[2].entry = Write8 /\ hist[2].nwr_post = hist[2].nwr_pre
    /\ hist[3].entry = Write8 /\ hist[3].nwr_post = hist[3].nwr_pre
    /\ hist[4].entry = Write8 /\ hist[4].nwr_post = hist[4].nwr_pre + 1
    /\ HostRead_U8(mem, <<\h8010, 0>>) = 1

\* C2 - endif handling: while skip_count is -2 every entry is consumed
\* without a write or a dispatch; an entry other than (0, 0x40000000)
\* leaves skip_count at -2, the first entry equal to that pair sets it to 0,
\* and the entry after the endif goes through normal processing.
C2_EndifHandling ==
    \A i \in 1..Len(hist) :
        LET h == hist[i]
        IN  h.skip_pre = -2 =>
                /\ NoSideEffect(h)
                /\ IF h.entry.cmd_addr = <<0, 0>> /\ h.entry.value = <<\h4000, 0>>
                   THEN /\ h.skip_post = 0
                        /\ i + 1 <= Len(hist) => ExecutedNormally(hist[i + 1])
                   ELSE h.skip_post = -2

\* a zero code that is not the endif and a write are skipped, the endif
\* ends the skip, and the write after it lands
C2_Witness ==
    /\ Len(hist) = 4
    /\ hist[1].entry = IfEqual_UntilEndif /\ hist[1].skip_post = -2
    /\ hist[2].entry = FillAndSlide /\ hist[2].skip_post = -2
    /\ hist[3].entry = Endif /\ hist[3].skip_post = 0
    /\ hist[4].entry = Write8 /\ hist[4].nwr_post = hist[4].nwr_pre + 1
    /\ wr # <<>>

\* the address the entry operates on lies in [0x80002000, 0x80003000)
EffectiveAddressInAR(h) ==
    LET ea == <<32768 + (h.entry.cmd_addr[1] % 512), h.entry.cmd_addr[2]>>
    IN  ~LtU32(ea, <<\h8000, \h2000>>) /\ LtU32(ea, <<\h8000, \h3000>>)

\* C3 - self-modification guard: every dispatched entry whose effective
\* address lies in [0x80002000, 0x80003000), whatever its size, type and
\* subtype bits, ends the run with failure and without a guest write, and
\* the code is gone from the active set when the tick has erased.
C3_SelfModificationGuard ==
    \A i \in 1..Len(hist) :
        (Dispatched(hist[i]) /\ EffectiveAddressInAR(hist[i])) =>
            /\ hist[i].res = "false"
            /\ hist[i].nwr_post = hist[i].nwr_pre
            /\ pc["cpu"] = "RunAllActive_exit" => s_active_codes = <<>>

\* guest memory after the writes w, in order, on top of m
RECURSIVE Replay(_, _)
Replay(m, w) ==
    IF w = <<>> THEN m
    ELSE Replay(CASE Head(w).w = 1 -> Poke(m, Head(w).a, Head(w).v[2])
                  [] Head(w).w = 2 -> PokeU16(m, Head(w).a, Head(w).v[2])
                  [] OTHER -> PokeU32(m, Head(w).a, Head(w).v),
                Tail(w))

\* C5 - no rollback on error: when entry k makes the run return failure,
\* guest memory is what the run started from with every write of the run
\* applied in order, k is the last entry visited, and the code is gone from
\* the active set when the tick has erased.
C5_NoRollback ==
    (pc["cpu"] \in {"RunCodeLocked", "remove_if", "RunAllActive_exit"} /\ hist # <<>>) =>
        /\ mem = Replay(mem0, wr)
        /\ \A i \in 1..Len(hist) :
               hist[i].res = "false" =>
                   /\ i = Len(hist)
                   /\ pc["cpu"] = "RunCodeLocked" => run.res = "false"
                   /\ pc["cpu"] # "RunCodeLocked" =>
                          /\ pass.ran[Len(pass.ran)].visited = i
                          /\ ~pass.ran[Len(pass.ran)].success
                   /\ pc["cpu"] = "RunAllActive_exit" => s_active_codes = <<>>

\* a write, then a failing entry, then an entry that is never visited: the
\* write is in guest memory and the code is erased
C5_Witness ==
    /\ pc["cpu"] = "RunAllActive_exit"
    /\ Len(pass.codes[1].ops) = 3
    /\ Len(hist) = 2
    /\ hist[1].entry = Write8 /\ hist[1].nwr_post = 1
    /\ hist[2].res = "false"
    /\ HostRead_U8(mem, <<\h8010, 0>>) = 1
    /\ s_active_codes = <<>>

(***************************************************************************)
(* Properties of the store under its two threads                           *)
(***************************************************************************)
\* thread t takes a step
StepOf(t) == pc'[t] # pc[t] \/ (t = "cpu" /\ run' # run)

\* the codes of the pass that returned success, among its first k
RECURSIVE Survivors(_)
Survivors(k) ==
    IF k = 0 THEN <<>>
    ELSE Survivors(k - 1) \o (IF pass.ran[k].success THEN <<pass.codes[k]>> ELSE <<>>)

\* C4 - executor pass: within a tick the codes of the active set are run
\* one after the other in store order, each once, whether or not an earlier
\* one failed; when the tick has erased, the active set is the subsequence
\* of the codes whose run returned success; and no step other than that
\* erasure and the body of ApplyCodes takes a code out of the active set.
C4_ExecutorPass ==
    /\ [](/\ pc["cpu"] \in {"remove_if", "RunCodeLocked"} =>
                /\ Len(pass.ran) = run.ci - 1
                /\ run.ci <= Len(pass.codes) + 1
                /\ \A k \in 1..Len(pass.ran) :
                       pass.ran[k].ci = k /\ pass.ran[k].arcode = pass.codes[k]
          /\ pc["cpu"] = "RunAllActive_exit" =>
                /\ Len(pass.ran) = Len(pass.codes)
                /\ \A k \in 1..Len(pass.ran) :
                       pass.ran[k].ci = k /\ pass.ran[k].arcode = pass.codes[k]
                /\ s_active_codes = Survivors(Len(pass.codes)))
    /\ [][\/ Len(s_active_codes') >= Len(s_active_codes)
             /\ SubSeq(s_active_codes', 1, Len(s_active_codes)) = s_active_codes
          \/ \E t \in Threads : pc[t] = "ApplyCodes_body" /\ pc'[t] # pc[t]
          \/ /\ pc["cpu"] = "remove_if" /\ pc'["cpu"] = "RunAllActive_exit"
             /\ s_active_codes' = Survivors(Len(pass.codes))]_vars

\* the failing code came first, the code after it ran all the same, and it
\* alone is left
C4_Witness ==
    /\ pc["cpu"] = "RunAllActive_exit"
    /\ pass.codes = <<BadCode, GoodCode>>
    /\ ~pass.ran[1].success
    /\ pass.ran[2].success
    /\ s_active_codes = <<GoodCode>>

\* the elements of codes whose active flag is set, in order
RECURSIVE ActiveOnly(_)
ActiveOnly(codes) ==
    IF codes = <<>> THEN <<>>
    ELSE (IF Head(codes).active THEN <<Head(codes)>> ELSE <<>>) \o ActiveOnly(Tail(codes))

\* C6 - ApplyCodes(new_list) with cheats enabled goes on to its body, and
\* its body leaves the active set equal to the subsequence of new_list
\* whose active flag is set, whatever the set held before; every code of
\* the active set has its active flag set, after every step.
C6_ApplyCodesReplaces ==
    [][/\ \A t \in Threads :
              /\ (pc[t] = "ApplyCodes" /\ pc'[t] # pc[t] /\ bEnableCheats) =>
                     pc'[t] = "ApplyCodes_lock"
              /\ (pc[t] = "ApplyCodes_body" /\ pc'[t] # pc[t]) =>
                     s_active_codes' = ActiveOnly(arg[t].codes)
       /\ \A i \in 1..Len(s_active_codes') : s_active_codes'[i].active]_vars

\* a second operation of the host, ApplyCodes of a list with an inactive
\* code in the middle, has replaced what the first left
C6_Witness ==
    /\ pc["ui"] = "idle"
    /\ calls["ui"] = 2
    /\ cur["ui"] = [op |-> "ApplyCodes", en |-> TRUE]
    /\ arg["ui"].codes = <<BadCode, OffCode, GoodCode>>
    /\ s_active_codes = <<BadCode, GoodCode>>
    /\ calls["cpu"] = 0

\* C7 - AddCode(code) with cheats enabled: when code.active is set the call
\* goes on to its body, which appends code after the elements the active
\* set holds and changes none of them; when it is not set the call returns
\* at once and leaves the active set and the logging latch as they are.
C7_AddCodeAppends ==
    [][\A t \in Threads :
           /\ (pc[t] = "AddCode" /\ pc'[t] # pc[t] /\ bEnableCheats) =>
                  IF arg[t].code.active
                  THEN pc'[t] = "AddCode_lock"
                  ELSE pc'[t] = "idle" /\ UNCHANGED <<s_active_codes, s_disable_logging>>
           /\ (pc[t] = "AddCode_lock" /\ pc'[t] # pc[t]) =>
                  UNCHANGED <<s_active_codes, s_disable_logging>>
           /\ (pc[t] = "AddCode_body" /\ pc'[t] # pc[t]) =>
                  /\ arg[t].code.active
                  /\ s_active_codes' = s_active_codes \o <<arg[t].code>>]_vars

\* two codes added one after the other
C7_Witness ==
    /\ pc["ui"] = "idle"
    /\ calls["ui"] = 2
    /\ cur["ui"] = [op |-> "AddCode", en |-> TRUE]
    /\ arg["ui"].code = BadCode
    /\ s_active_codes = <<GoodCode, BadCode>>

\* the operation thread t executes found the flag false at its first statement
GateClosed(t) == IF pc[t] = cur[t].op THEN ~bEnableCheats ELSE ~cur[t].en

\* no step of an operation among ops that found the flag false changes the
\* active set, the self-log, the logging flags or guest memory
NoOpWhileDisabled(ops) ==
    \A t \in Threads :
        (pc[t] # "idle" /\ StepOf(t) /\ cur[t].op \in ops /\ GateClosed(t)) =>
            UNCHANGED <<s_active_codes, s_internal_log, s_use_internal_log,
                        s_disable_logging, mem>>

C9_LockHeldForPass ==
    pc["cpu"] \in {"remove_if", "RunCodeLocked", "RunAllActive_exit"} =>
        /\ s_lock = "cpu"
        /\ pc["ui"] \notin {"ApplyCodes_body", "AddCode_body", "GetSelfLog_body",
                            "ClearSelfLog_body"}
        /\ pc["cpu"] # "RunAllActive_exit" => s_active_codes = pass.codes
        /\ Len(s_internal_log) >= Len(pass.log0)
        /\ SubSeq(s_internal_log, 1, Len(pass.log0)) = pass.log0
        /\ got_log = pass.got0

\* between the first and the second code of a pass, the host has asked for
\* the lock and waits
C9_Witness ==
    /\ pc["cpu"] = "remove_if"
    /\ run.ci = 2
    /\ Len(pass.codes) = 2
    /\ pc["ui"] \in {"ApplyCodes_lock", "AddCode_lock"}
    /\ calls["ui"] = 2

\* thread t is at a statement that reads or writes the list or the self-log
Accessing(t) ==
    pc[t] \in {"ApplyCodes_body", "AddCode_body", "GetSelfLog_body", "ClearSelfLog_body",
               "remove_if", "RunCodeLocked", "RunAllActive_exit"}

\* C10 - every statement that reads or writes the active-code list or the
\* self-log runs in a thread that holds the mutex, no two threads are at
\* such a statement together, and every step that changes the list or the
\* self-log or copies the self-log out is a step of the holder.
C10_AccessUnderLock ==
    /\ [](/\ \A t \in Threads : Accessing(t) => s_lock = t
          /\ ~(Accessing("cpu") /\ Accessing("ui")))
    /\ [][(s_active_codes' # s_active_codes \/ s_internal_log' # s_internal_log
             \/ got_log' # got_log) =>
              \E t \in Threads : s_lock = t /\ StepOf(t)]_vars

\* the host copies the self-log out while the emulation thread waits for
\* the lock
C10_Witness ==
    /\ pc["ui"] = "GetSelfLog_body"
    /\ s_lock = "ui"
    /\ pc["cpu"] = "RunAllActive_lock"
    /\ s_active_codes # <<>>

(***************************************************************************)
(* Properties of successive ticks                                          *)
(***************************************************************************)
\* a step appends a line to the self-log
LineAppended == Len(s_internal_log') > Len(s_internal_log)

\* C11 as the specification states it - once a pass has completed, no line
\* is appended to the self-log until the body of ApplyCodes has run again.
C11_LatchUntilApplyCodes ==
    [][LineAppended => (pass.done = 0 \/ "ApplyCodes" \in pass.since)]_vars

\* C11 - logging latch: once a pass has completed, no step appends a line
\* to the self-log, self-logging enabled or not, until the body of
\* ApplyCodes or of AddCode has run again; the lines are appended by the
\* pass that follows, and the latch is set exactly from the end of a pass to
\* the next such body.
C11_LatchUntilListChanges ==
    /\ [](s_disable_logging <=> (pass.done > 0 /\ pass.since = {}))
    /\ [][LineAppended =>
              /\ pass.done = 0 \/ pass.since # {}
              /\ pc["cpu"] \in {"remove_if", "RunCodeLocked"}
              /\ StepOf("cpu")]_vars

\* the first pass has logged, the second has run the same list with
\* self-logging still enabled and has appended nothing
C11_Witness ==
    /\ pass.done = 2
    /\ pc["cpu"] = "idle"
    /\ s_use_internal_log
    /\ pass.codes # <<>>
    /\ Len(pass.ran) = Len(pass.codes)
    /\ s_internal_log # <<>>
    /\ s_internal_log = pass.log0
    /\ calls["ui"] = MaxHostCalls - 1

(***************************************************************************)
(* Properties of LoadCodes and SaveCodes, read off loaded: record i is     *)
(* what the i-th call of LoadCodes read and returned.                      *)
(***************************************************************************)
IsNameLine(line) == line # <<>> /\ line[1] = "$"

TwoPieces(pieces) == Len(pieces) = 2 /\ Len(pieces[1]) = 8 /\ Len(pieces[2]) = 8

IsPlainLine(line) ==
    /\ line # <<>> /\ ~IsNameLine(line)
    /\ TwoPieces(SplitString(line, " "))
    /\ \A i \in 1..17 : i # 9 => isxdigit(line[i])

ThreePieces(pieces) ==
    Len(pieces) = 3 /\ Len(pieces[1]) = 4 /\ Len(pieces[2]) = 4 /\ Len(pieces[3]) = 5

IsEncryptedLine(line) ==
    /\ line # <<>> /\ ~IsNameLine(line)
    /\ ~TwoPieces(SplitString(line, " "))
    /\ ThreePieces(SplitString(line, "-"))

IsInstructionLine(line) == IsPlainLine(line) \/ IsEncryptedLine(line)

IsMalformedLine(line) == line # <<>> /\ ~IsNameLine(line) /\ ~IsInstructionLine(line)

\* the instruction a well-formed line stands for
InstructionOf(line) ==
    IF IsPlainLine(line)
    THEN AREntry(Parsed(SubSeq(line, 1, 8)), Parsed(SubSeq(line, 10, 17)))
    ELSE Decrypted(SelectSeq(line, LAMBDA c : c # "-"))

\* a listing of entries: no instruction line comes before the first name line
RECURSIVE IsListing(_)
IsListing(lines) ==
    \/ lines = <<>>
    \/ IsNameLine(Head(lines))
    \/ ~IsInstructionLine(Head(lines)) /\ IsListing(Tail(lines))

\* the codes of a listing, in order: each name with the instructions that
\* follow it up to the next name line
RECURSIVE EntriesOf(_, _)
EntriesOf(lines, found) ==
    IF lines = <<>> THEN found
    ELSE IF IsNameLine(Head(lines))
    THEN EntriesOf(Tail(lines), Append(found, [name |-> Tail(Head(lines)), ops |-> <<>>]))
    ELSE IF IsInstructionLine(Head(lines)) /\ found # <<>>
    THEN EntriesOf(Tail(lines),
                   [found EXCEPT ![Len(found)].ops = Append(@, InstructionOf(Head(lines)))])
    ELSE EntriesOf(Tail(lines), found)

CodesOf(lines) == SelectSeq(EntriesOf(lines, <<>>), LAMBDA e : e.ops # <<>>)

NamesAndOps(codes) == [k \in 1..Len(codes) |-> [name |-> codes[k].name, ops |-> codes[k].ops]]

\* C12 - parser commit: LoadCodes of two listings returns, for every code of
\* the global and then of the local listing (a name line followed by at least
\* one well-formed instruction line, plain and/or encrypted), exactly one
\* ARCode with that name and that code's instructions in listing order.
C12_CommitOnce ==
    \A i \in 1..Len(loaded) :
        (IsListing(global_ini.ActionReplay) /\ IsListing(loaded[i].local.ActionReplay)) =>
            NamesAndOps(loaded[i].codes) =
                CodesOf(global_ini.ActionReplay) \o CodesOf(loaded[i].local.ActionReplay)

\* name is enabled by the lines of section ActionReplay_Enabled
IsEnabled(name, enabled_lines) ==
    \E j \in 1..Len(enabled_lines) : enabled_lines[j] = <<"$">> \o name

\* C13 - flags of the codes LoadCodes returns: a code is active iff its name
\* is a '$' line of the local ActionReplay_Enabled, whichever listing it came
\* from, and user_defined iff it came from the local listing, the codes of
\* the global listing being the first ones returned.
C13_Flags ==
    \A i \in 1..Len(loaded) :
        \A k \in 1..Len(loaded[i].codes) :
            /\ loaded[i].codes[k].active <=>
                   IsEnabled(loaded[i].codes[k].name, loaded[i].local.ActionReplay_Enabled)
            /\ loaded[i].codes[k].user_defined <=> k > Len(CodesOf(global_ini.ActionReplay))

\* the listing without its malformed lines
WithoutMalformed(ini) ==
    [ini EXCEPT !.ActionReplay = SelectSeq(@, LAMBDA line : ~IsMalformedLine(line))]

\* an alert that shows the text of line
Reported(line, raised) ==
    \E a \in 1..Len(raised) : Len(raised[a]) = 2 /\ raised[a][2] = line

\* C14 - parse errors are local: every malformed instruction line of the
\* local listing raises an alert that shows it, and the codes returned have
\* the names and the ops LoadCodes returns for the listing without its
\* malformed lines.
C14_ParseErrorsLocal ==
    \A i \in 1..Len(loaded) :
        /\ \A j \in 1..Len(loaded[i].local.ActionReplay) :
               IsMalformedLine(loaded[i].local.ActionReplay[j]) =>
                   Reported(loaded[i].local.ActionReplay[j], loaded[i].alerts)
        /\ \A unset \in UnsetFlags :
               NamesAndOps(loaded[i].codes) =
                   NamesAndOps(LoadCodes(global_ini, WithoutMalformed(loaded[i].local),
                                         unset).codes)

\* a listing of plain codes only: name lines and well-formed plain
\* instruction lines, a name line first
IsPlainListing(lines) ==
    /\ lines # <<>> => IsNameLine(lines[1])
    /\ \A j \in 1..Len(lines) : IsNameLine(lines[j]) \/ IsPlainLine(lines[j])

NamesOpsAndActive(codes) ==
    [k \in 1..Len(codes) |->
        [name |-> codes[k].name, ops |-> codes[k].ops, active |-> codes[k].active]]

\* C15 - parser round trip: when the local listing holds plain codes only,
\* LoadCodes after SaveCodes of what a first LoadCodes returned returns the
\* same code names, the same ops in the same order and the same active flags.
C15_RoundTrip ==
    (/\ Len(loaded) = 2
     /\ loaded[2].saved
     /\ IsPlainListing(loaded[1].local.ActionReplay)) =>
        NamesOpsAndActive(loaded[2].codes) = NamesOpsAndActive(loaded[1].codes)

\* two plain codes, one of them enabled, written back in other characters
\* than they were read from and read again
C15_Witness ==
    /\ Len(loaded) = 2
    /\ loaded[2].saved
    /\ IsPlainListing(loaded[1].local.ActionReplay)
    /\ loaded[2].local.ActionReplay # loaded[1].local.ActionReplay
    /\ loaded[2].local.ActionReplay_Enabled # loaded[1].local.ActionReplay_Enabled
    /\ \E k, l \in 1..Len(loaded[1].codes) :
           /\ loaded[1].codes[k].user_defined /\ loaded[1].codes[k].active
           /\ loaded[1].codes[l].user_defined /\ ~loaded[1].codes[l].active
           /\ loaded[1].codes[l].ops # loaded[1].codes[k].ops

UpperHexDigits == {HexDigits[i] : i \in 1..16}

\* line is op as "%08X %08X" prints it
IsFormatted(line, op) ==
    /\ Len(line) = 17
    /\ line[9] = " "
    /\ \A i \in 1..17 : i # 9 => line[i] \in UpperHexDigits
    /\ Parsed(SubSeq(line, 1, 8)) = op.cmd_addr
    /\ Parsed(SubSeq(line, 10, 17)) = op.value

\* lines is, for the user-defined codes in order and for no other code, a
\* name line followed by one formatted line per op
RECURSIVE HoldsUserDefined(_, _)
HoldsUserDefined(lines, codes) ==
    IF codes = <<>> THEN lines = <<>>
    ELSE IF ~Head(codes).user_defined THEN HoldsUserDefined(lines, Tail(codes))
    ELSE /\ Len(lines) >= 1 + Len(Head(codes).ops)
         /\ lines[1] = <<"$">> \o Head(codes).name
         /\ \A j \in 1..Len(Head(codes).ops) : IsFormatted(lines[1 + j], Head(codes).ops[j])
         /\ HoldsUserDefined(SubSeq(lines, 2 + Len(Head(codes).ops), Len(lines)), Tail(codes))

ActiveCodes(codes) == SelectSeq(codes, LAMBDA code : code.active)

\* C16 - what SaveCodes writes: section ActionReplay_Enabled is one '$name'
\* line for each active code, user-defined or not, and section ActionReplay
\* is, for each user-defined code and no other, a '$name' line followed by
\* one '%08X %08X' line per op, all in the order of the codes.
C16_SaveCodes ==
    saved =>
        /\ local_ini.ActionReplay_Enabled =
               [k \in 1..Len(ActiveCodes(arCodes)) |-> <<"$">> \o ActiveCodes(arCodes)[k].name]
        /\ HoldsUserDefined(local_ini.ActionReplay, arCodes)

\* saved: an active code that is not user-defined, and user-defined codes
\* of which one is active and one is not
C16_Witness ==
    /\ saved
    /\ \E g, k, l \in 1..Len(arCodes) :
           /\ arCodes[g].active /\ ~arCodes[g].user_defined
           /\ arCodes[k].active /\ arCodes[k].user_defined /\ arCodes[k].ops # <<>>
           /\ ~arCodes[l].active /\ arCodes[l].user_defined
           /\ arCodes[l].ops # arCodes[k].ops
    /\ Len(local_ini.ActionReplay) = 4
    /\ Len(local_ini.ActionReplay_Enabled) = 2

C18_AllOrNone ==
    [][(pc["cpu"] # "idle" /\ pc'["cpu"] = "idle") =>
          \/ /\ pc["cpu"] = "RunAllActive"
             /\ ~bEnableCheats
             /\ UNCHANGED <<pass, mem, s_active_codes, s_lock>>
          \/ /\ pc["cpu"] = "RunAllActive_exit"
             /\ s_lock = "cpu"
             /\ Len(pass.ran) = Len(pass.codes)
             /\ \A k \in 1..Len(pass.codes) : pass.ran[k].arcode = pass.codes[k]]_vars

\* the flag was true at the test and is false at the end of a pass that ran
\* the two codes of the active set, the first of which failed
C18_Witness ==
    /\ pc["cpu"] = "RunAllActive_exit"
    /\ cur["cpu"] = [op |-> "RunAllActive", en |-> TRUE]
    /\ ~bEnableCheats
    /\ Len(pass.codes) = 2
    /\ Len(pass.ran) = 2
    /\ ~pass.ran[1].success /\ pass.ran[2].success

(***************************************************************************)
(* The scenarios                                                           *)
(***************************************************************************)
\* the pass over code has ended
Ran(code) == pc["cpu"] = "idle" /\ pass.done = 1 /\ pass.codes = <<code>>

\* the bytes from a, count of them
Bytes(a, count) == {AddInt(a, i) : i \in 0..(count - 1)}

Unchanged(addresses) ==
    \A a \in addresses : HostRead_U8(mem, a) = HostRead_U8(pass.mem, a)

\* C19 - scenario S1: after one run of [(0x00100003, 0x000A00FF)] the bytes
\* at 0x80100000 through 0x8010000A are 0xFF and the byte at 0x8010000B is
\* what it was.
C19_S1_ElevenBytes ==
    Ran(Scenario_S1) =>
        /\ \A a \in Bytes(<<\h8010, \h0000>>, 11) : HostRead_U8(mem, a) = \hFF
        /\ Unchanged({<<\h8010, \h000B>>})

\* C19, as the code has it - scenario S1: the command word 0x00100003 is an
\* 8-bit write at 0x80100003 and the operand 0x000A00FF asks for 0xA00 more
\* bytes: after one run the 2561 bytes at 0x80100003 through 0x80100A03 are
\* 0xFF, every other byte is what it was, the three bytes before 0x80100003
\* and the byte at 0x80100A04 among them, and the code stays active.
C19_S1_FillFromAddress ==
    Ran(Scenario_S1) =>
        /\ \A a \in Bytes(<<\h8010, \h0003>>, 2561) : HostRead_U8(mem, a) = \hFF
        /\ Unchanged(((DOMAIN mem) \cup (DOMAIN pass.mem)
                      \cup Bytes(<<\h8010, \h0000>>, 3) \cup {<<\h8010, \h0A04>>})
                     \ Bytes(<<\h8010, \h0003>>, 2561))
        /\ s_active_codes = <<Scenario_S1>>

\* S1 has run on a memory that held 0x11 before, inside and after the fill
C19_Witness ==
    /\ Ran(Scenario_S1)
    /\ HostRead_U8(pass.mem, <<\h8010, \h0000>>) = \h11
    /\ HostRead_U8(pass.mem, <<\h8010, \h000B>>) = \h11
    /\ HostRead_U8(pass.mem, <<\h8010, \h0A04>>) = \h11
    /\ HostRead_U8(mem, <<\h8010, \h0000>>) = \h11
    /\ HostRead_U8(mem, <<\h8010, \h000B>>) = \hFF
    /\ HostRead_U8(mem, <<\h8010, \h0A03>>) = \hFF
    /\ HostRead_U8(mem, <<\h8010, \h0A04>>) = \h11
    /\ s_use_internal_log /\ Len(s_internal_log) > 2561

\* memory held the 16-bit value 0x1234 at 0x80200000 when the pass began
HalfIs1234 == HostRead_U16(pass.mem, <<\h8020, \h0000>>) = \h1234

TwoWritesLanded ==
    /\ HostRead_U32(mem, <<\h8030, \h0000>>) = <<\hAAAA, \hAAAA>>
    /\ HostRead_U32(mem, <<\h8030, \h1000>>) = <<\hBBBB, \hBBBB>>

TwoWritesSkipped ==
    Unchanged(Bytes(<<\h8030, \h0000>>, 4) \cup Bytes(<<\h8030, \h1000>>, 4))

\* C20 - scenario S2: with 0x1234 at 0x80200000, a run of [(0x02200001,
\* 0x00001234), (0x04300000, 0xAAAAAAAA), (0x04301000, 0xBBBBBBBB)] leaves
\* memory at 0x80300000 and at 0x80301000 as it was.
C20_S2_TwoLinesSkipped ==
    (Ran(Scenario_S2) /\ HalfIs1234) => TwoWritesSkipped

\* C20, as the code has it - scenario S2: the command word 0x02200001 is of
\* type 0 and size 1, a 16-bit write of 0x1234 at 0x80200001 and no
\* conditional, so the two lines after it are run and their writes land,
\* whatever memory held.  After the 16-bit "if equal, else skip two lines"
\* at 0x80200000, command word 0x4A200000, the two writes land when memory
\* holds 0x1234 there and are both skipped when it holds another value.
C20_S2_WriteThenTwoWrites ==
    /\ Ran(Scenario_S2) =>
           /\ HostRead_U16(mem, <<\h8020, \h0001>>) = \h1234
           /\ TwoWritesLanded
           /\ Len(hist) = 3 /\ \A k \in 1..3 : hist[k].skip_post = 0
           /\ s_active_codes = <<Scenario_S2>>
    /\ Ran(Scenario_S2_IfEqual) =>
           /\ Unchanged(Bytes(<<\h8020, \h0000>>, 3))
           /\ IF HalfIs1234 THEN TwoWritesLanded ELSE TwoWritesSkipped
           /\ s_active_codes = <<Scenario_S2_IfEqual>>

\* S2 has run on a memory that held 0x1234 at 0x80200000, and both of its
\* last two lines have written
C20_Witness ==
    /\ Ran(Scenario_S2)
    /\ HalfIs1234
    /\ HostRead_U32(pass.mem, <<\h8030, \h0000>>) = <<0, 0>>
    /\ HostRead_U32(pass.mem, <<\h8030, \h1000>>) = <<0, 0>>
    /\ TwoWritesLanded
    /\ HostRead_U8(mem, <<\h8020, \h0000>>) = \h12
    /\ HostRead_U16(mem, <<\h8020, \h0001>>) = \h1234

\* the success of a run: RunAllActive keeps the one code it ran
Succeeded(code) == s_active_codes = <<code>>

\* C21 - scenario S3: a run of [(0x00000000, 0x08500000), (0x00400000,
\* 0x00000005)] copies the five bytes at 0x80400000 through 0x80400004 to
\* 0x80500000 through 0x80500004 and succeeds.
C21_S3_FiveBytesCopied ==
    Ran(Scenario_S3) =>
        /\ \A i \in 0..4 : HostRead_U8(mem, <<\h8050, i>>) = HostRead_U8(pass.mem, <<\h8040, i>>)
        /\ Succeeded(Scenario_S3)

\* C21, as the code has it - scenario S3: the operand 0x08500000 of the
\* first line has 0 in its top three bits, the zero code that ends the
\* code: the run succeeds at once, its second line is never reached and no
\* byte of memory changes.  After a first line of operand 0x86500000, zero
\* code 04 of size 3, the line (0x00400000, 0x00000005) is taken as the
\* operands of a memory copy: the five bytes at 0x80500000 become what the
\* five bytes at 0x80400000 held, every other byte is what it was, and the
\* run succeeds.
C21_S3_EndsBeforeCopy ==
    /\ Ran(Scenario_S3) =>
           /\ mem = pass.mem
           /\ Len(hist) = 1 /\ hist[1].res = "true" /\ wr = <<>>
           /\ Succeeded(Scenario_S3)
    /\ Ran(Scenario_S3_Copy) =>
           /\ \A i \in 0..4 :
                  HostRead_U8(mem, <<\h8050, i>>) = HostRead_U8(pass.mem, <<\h8040, i>>)
           /\ Unchanged(((DOMAIN mem) \cup (DOMAIN pass.mem)) \ Bytes(<<\h8050, \h0000>>, 5))
           /\ Len(hist) = 2 /\ hist[1].mc_post /\ ~hist[2].mc_post
           /\ Succeeded(Scenario_S3_Copy)

\* S3 has run on a memory that held DE AD BE EF CA at 0x80400000 and 0x55
\* at 0x80500000, and holds 0x55 there still
C21_Witness ==
    /\ Ran(Scenario_S3)
    /\ HostRead_U32(pass.mem, <<\h8040, \h0000>>) = <<\hDEAD, \hBEEF>>
    /\ HostRead_U8(pass.mem, <<\h8040, \h0004>>) = \hCA
    /\ \A i \in 0..4 : HostRead_U8(mem, <<\h8050, i>>) = \h55

\* C22 - scenario S4: with the byte 0xF0 at 0x80600000, a run of
\* [(0x04600002, 0x00000020)] adds in place at 8 bits and leaves the byte
\* 0x10 at 0x80600000.
C22_S4_ByteWraps ==
    (Ran(Scenario_S4) /\ HostRead_U8(pass.mem, <<\h8060, \h0000>>) = \hF0) =>
        HostRead_U8(mem, <<\h8060, \h0000>>) = \h10

\* C22, as the code has it - scenario S4: the command word 0x04600002 is of
\* subtype 0, type 0 and size 2, a 32-bit write of 0x00000020 at
\* 0x80600002: the bytes 0x80600002 through 0x80600005 become 00 00 00 20,
\* and the byte at 0x80600000 stays 0xF0.  The 8-bit add at 0x80600000 is
\* the command word 0x80600000: with the operand 0x00000020 it leaves 0x10
\* there, 0xF0 + 0x20 modulo 256, and no other byte changes.
C22_S4_WriteNotAdd ==
    /\ Ran(Scenario_S4) =>
           /\ HostRead_U32(mem, <<\h8060, \h0002>>) = <<0, \h0020>>
           /\ Unchanged(((DOMAIN mem) \cup (DOMAIN pass.mem)) \ Bytes(<<\h8060, \h0002>>, 4))
           /\ HostRead_U8(mem, <<\h8060, \h0000>>) = HostRead_U8(pass.mem, <<\h8060, \h0000>>)
           /\ Succeeded(Scenario_S4)
    /\ Ran(Scenario_S4_Add8) =>
           /\ HostRead_U8(mem, <<\h8060, \h0000>>)
                  = (HostRead_U8(pass.mem, <<\h8060, \h0000>>) + \h20) % 256
           /\ Unchanged(((DOMAIN mem) \cup (DOMAIN pass.mem)) \ {<<\h8060, \h0000>>})
           /\ Succeeded(Scenario_S4_Add8)

\* S4 has run on a memory that held 0xF0 at 0x80600000: the byte is 0xF0
\* still, and 0x20 is at 0x80600005
C22_Witness ==
    /\ Ran(Scenario_S4)
    /\ HostRead_U8(pass.mem, <<\h8060, \h0000>>) = \hF0
    /\ HostRead_U8(mem, <<\h8060, \h0000>>) = \hF0
    /\ HostRead_U8(mem, <<\h8060, \h0005>>) = \h20

(***************************************************************************)
(* Properties of the dispatch of RunCodeLocked                             *)
(***************************************************************************)
\* the loop of RunCodeLocked is at the head of an iteration
AtLoopHead ==
    /\ pc["cpu"] = "RunCodeLocked"
    /\ run.res = "continue"
    /\ run.ei <= Len(s_active_codes[run.ci].ops)

\* C23 - at the head of every iteration of the loop of RunCodeLocked a
\* pending fill and slide or memory copy comes with a skip count of 0, and
\* the two are never pending together; an iteration that finds a skip
\* count other than 0 handles the skip and nothing else: it leaves the
\* pending flags and val_last as they are and writes nothing.
C23_PendingWithoutSkip ==
    /\ ~(run.do_fill_and_slide /\ run.do_memory_copy)
    /\ (run.do_fill_and_slide \/ run.do_memory_copy) => run.skip_count = 0
    /\ \A k \in 1..Len(hist) :
           /\ ~(hist[k].fs_pre /\ hist[k].mc_pre)
           /\ (hist[k].fs_pre \/ hist[k].mc_pre) => hist[k].skip_pre = 0
           /\ hist[k].skip_pre # 0 =>
                  /\ ~hist[k].fs_pre /\ ~hist[k].fs_post
                  /\ ~hist[k].mc_pre /\ ~hist[k].mc_post
                  /\ hist[k].val_post = hist[k].val_pre
                  /\ hist[k].nwr_post = hist[k].nwr_pre

\* the loop is at the head of an iteration with a memory copy pending, in a
\* run that has skipped a line
C23_Witness ==
    /\ AtLoopHead
    /\ run.do_memory_copy /\ run.skip_count = 0
    /\ \E k \in 1..Len(hist) : hist[k].skip_pre # 0

\* the k-th iteration of the run met a zero code 04 with no skip active and
\* nothing pending
ExecutedZeroCode04(k) ==
    /\ hist[k].skip_pre = 0 /\ ~hist[k].fs_pre /\ ~hist[k].mc_pre
    /\ hist[k].entry.cmd_addr = <<0, 0>>
    /\ hist[k].entry.value[1] \div 8192 = 4

WritesOf(k) == hist[k].nwr_post - hist[k].nwr_pre

\* C24 - an executed zero code 04 writes nothing, sets val_last to its
\* operand and leaves a memory copy pending when bits 25..26 of the operand
\* are 3 and a fill and slide otherwise.  The next entry of the list, and
\* no other, is taken as the operands of the pending operation, whatever
\* its own words say: a zero word does not make it a zero code, an address
\* in the Action Replay range does not make the run fail, the type bits do
\* not make it a conditional.  It writes what the operation writes, the
\* number of writes its operand asks of a fill and slide or the number of
\* bytes, as a u8, it asks of a memory copy, fails only on a memory copy whose
\* operand has bits 16..23 set, and leaves nothing pending.  A zero code 04
\* that is the last entry ends the run with success and without a write.
C24_CompositeConsumption ==
    /\ \A k \in 1..Len(hist) :
           /\ ExecutedZeroCode04(k) =>
                  /\ hist[k].mc_post <=> (hist[k].entry.value[1] \div 512) % 4 = 3
                  /\ hist[k].fs_post <=> (hist[k].entry.value[1] \div 512) % 4 # 3
                  /\ hist[k].val_post = hist[k].entry.value
                  /\ hist[k].skip_post = 0
                  /\ WritesOf(k) = 0
                  /\ hist[k].res = "continue"
           /\ (hist[k].fs_pre \/ hist[k].mc_pre) =>
                  /\ k > 1 /\ ExecutedZeroCode04(k - 1)
                  /\ ~hist[k].fs_post /\ ~hist[k].mc_post
                  /\ hist[k].skip_post = 0
                  /\ hist[k].val_post = hist[k].val_pre
           /\ hist[k].fs_pre =>
                  /\ ARAddr_size(hist[k].val_pre) # DATATYPE_32BIT_FLOAT
                  /\ hist[k].res = "continue"
                  /\ WritesOf(k) = hist[k].entry.value[1] % 256
           /\ hist[k].mc_pre =>
                  IF hist[k].entry.value[1] % 256 = 0
                  THEN /\ hist[k].res = "continue"
                       /\ WritesOf(k) = (hist[k].entry.value[2] % 32768) % 256
                  ELSE /\ hist[k].res = "false"
                       /\ WritesOf(k) = 0
    /\ Len(wr) = IF hist = <<>> THEN 0 ELSE hist[Len(hist)].nwr_post
    /\ (/\ pc["cpu"] = "RunCodeLocked"
        /\ hist # <<>>
        /\ Len(hist) = Len(s_active_codes[run.ci].ops)
        /\ ExecutedZeroCode04(Len(hist))) => run.res = "true"

\* a run of three entries has ended: a memory copy took a write to the
\* Action Replay range as its operands and copied one byte, and the zero
\* code 04 after it was the last entry
C24_Witness ==
    /\ pc["cpu"] = "idle" /\ pass.done = 1
    /\ Len(hist) = 3
    /\ hist[1].entry = MemoryCopy /\ hist[1].mc_post
    /\ hist[2].entry = Write8_AR /\ hist[2].mc_pre /\ WritesOf(2) = 1
    /\ hist[3].entry = FillAndSlide /\ hist[3].fs_post
    /\ Len(wr) = 1
    /\ Len(s_active_codes) = 1

\* the k-th iteration of the run dispatched its entry by the entry's own
\* words: no skip was active and nothing was pending
Executed(k) == hist[k].skip_pre = 0 /\ ~hist[k].fs_pre /\ ~hist[k].mc_pre

\* the k-th iteration changed neither the locals of the run nor memory
ChangedNothing(k) ==
    /\ hist[k].skip_post = hist[k].skip_pre
    /\ hist[k].fs_post = hist[k].fs_pre
    /\ hist[k].mc_post = hist[k].mc_pre
    /\ hist[k].val_post = hist[k].val_pre
    /\ WritesOf(k) = 0

\* the run has returned and RunAllActive has dropped or kept the code
PassOver == pc["cpu"] = "idle" /\ pass.done = 1

\* C25 - an executed entry whose command word is 0 is dispatched on the top
\* three bits z of its operand: z = 0 returns success at once, z = 2
\* changes nothing and goes on to the next entry, z = 3 and z = 1, 5, 6, 7
\* return failure; an executed entry of type 0 and subtype 3 returns
\* failure.  None of them writes.  The iteration that returns is the last
\* of the run: no later entry is looked at, and the pass keeps the code
\* after a success and drops it after a failure.
C25_ZeroCodeDispatch ==
    /\ \A k \in 1..Len(hist) :
           LET z == hist[k].entry.value[1] \div 8192
               addr == hist[k].entry.cmd_addr
           IN  /\ (Executed(k) /\ addr = <<0, 0>>) =>
                      /\ z = 0 => hist[k].res = "true" /\ ChangedNothing(k)
                      /\ z = 2 => hist[k].res = "continue" /\ ChangedNothing(k)
                      /\ z \in {1, 3, 5, 6, 7} => hist[k].res = "false" /\ ChangedNothing(k)
               /\ (Executed(k) /\ addr[1] \div 16384 = 3 /\ (addr[1] \div 2048) % 8 = 0) =>
                      hist[k].res = "false" /\ ChangedNothing(k)
               /\ hist[k].res # "continue" => k = Len(hist)
    /\ (PassOver /\ hist # <<>> /\ hist[Len(hist)].res # "continue") =>
           /\ Len(wr) = hist[Len(hist)].nwr_post
           /\ IF hist[Len(hist)].res = "true"
              THEN s_active_codes = pass.codes
              ELSE s_active_codes = <<>>

\* a pass is over in which an endif line outside a skip changed nothing, the
\* write after it landed, the end of codes returned, and the closing write
\* after that never ran
C25_Witness ==
    /\ PassOver
    /\ pass.codes = <<ARCode("T", TRUE, TRUE, <<Endif, Write8, EndOfCodes, ClosingWrite>>)>>
    /\ Len(hist) = 3 /\ hist[3].res = "true"
    /\ HostRead_U8(pass.mem, <<\h8010, \h0000>>) = 0
    /\ HostRead_U8(mem, <<\h8010, \h0000>>) = 1
    /\ HostRead_U8(mem, <<\h8010, \h0040>>) = 0
    /\ s_active_codes = pass.codes

\* a pass is over in which a master code returned failure: the closing write
\* after it never ran and the code is gone
C25_Witness_MasterCode ==
    /\ PassOver
    /\ pass.codes = <<ARCode("T", TRUE, TRUE, <<MasterCode, ClosingWrite>>)>>
    /\ Len(hist) = 1 /\ hist[1].res = "false"
    /\ mem = pass.mem
    /\ s_active_codes = <<>>

\* the k-th iteration of the run dispatched a conditional: an entry whose
\* type bits are not 0
ExecutedConditional(k) ==
    Executed(k) /\ (hist[k].entry.cmd_addr[1] \div 2048) % 8 # 0

\* the conditionals of DispatchEntries are 8-bit "if equal": the byte the
\* k-th iteration found at the entry's address is the low byte of its operand
ByteIsEqual(k) == hist[k].rd[1] \div 256 = hist[k].entry.value[2] % 256

\* C26 - an executed conditional writes nothing, leaves the pending flags
\* alone and goes on; it leaves the skip count at 0 when its comparison is
\* true, and when it is false sets it to 1 for subtype 0, 2 for subtype 1,
\* -2 for subtype 2 and -3 for subtype 3.  Each iteration starts from the
\* skip count the one before it left.  The iteration that starts from -3
\* returns success without another change, so no later entry has an effect;
\* and a pass whose code ends with a conditional, whatever skip count it
\* left, keeps the code.
C26_ConditionalOutcome ==
    /\ \A k \in 1..Len(hist) :
           LET subtype == hist[k].entry.cmd_addr[1] \div 16384
           IN  /\ ExecutedConditional(k) =>
                      /\ (hist[k].entry.cmd_addr[1] \div 512) % 32 = 4
                      /\ hist[k].res = "continue"
                      /\ WritesOf(k) = 0
                      /\ ~hist[k].fs_post /\ ~hist[k].mc_post
                      /\ hist[k].val_post = hist[k].val_pre
                      /\ hist[k].skip_post =
                             IF ByteIsEqual(k) THEN 0
                             ELSE CASE subtype = 0 -> 1
                                    [] subtype = 1 -> 2
                                    [] subtype = 2 -> -2
                                    [] subtype = 3 -> -3
               /\ k > 1 => hist[k].skip_pre = hist[k - 1].skip_post
               /\ hist[k].skip_pre = -3 =>
                      /\ hist[k].res = "true" /\ ChangedNothing(k)
                      /\ k = Len(hist)
    /\ (PassOver /\ hist # <<>> /\ ExecutedConditional(Len(hist))) =>
           /\ Len(hist) = Len(pass.codes[1].ops)
           /\ s_active_codes = pass.codes
           /\ Len(wr) = hist[Len(hist)].nwr_pre

\* a pass is over in which a false "skip one line" conditional skipped a
\* write and a false "skip all lines" conditional came next: the closing
\* write after it never ran
C26_Witness ==
    /\ PassOver
    /\ Len(hist) = 4
    /\ hist[1].entry = IfEqual_OneLine /\ hist[1].skip_post = 1
    /\ hist[2].entry = Write8 /\ hist[2].skip_post = 0 /\ WritesOf(2) = 0
    /\ hist[3].entry = IfEqual_AllLines /\ hist[3].skip_post = -3
    /\ hist[4].entry = ClosingWrite /\ hist[4].res = "true" /\ WritesOf(4) = 0
    /\ mem = pass.mem
    /\ s_active_codes = pass.codes

\* a pass is over in which a "skip all lines" conditional was true and the
\* closing write after it landed
C26_Witness_True ==
    /\ PassOver
    /\ Len(hist) = 3
    /\ hist[1].entry = Write8 /\ WritesOf(1) = 1
    /\ hist[2].entry = IfEqual_AllLines /\ hist[2].skip_post = 0
    /\ hist[3].entry = ClosingWrite /\ WritesOf(3) = 1
    /\ HostRead_U8(pass.mem, <<\h8010, \h0000>>) = 0
    /\ HostRead_U8(mem, <<\h8010, \h0040>>) = \h99

(***************************************************************************)
(* Properties of the arithmetic of the code functions                      *)
(***************************************************************************)
\* the bits of a width: 8, 16, and 32 for both 32-bit sizes
WidthOf(size) == CASE size = 0 -> 8 [] size = 1 -> 16 [] OTHER -> 32

\* the u32 v cut down to its low bits
Low(v, bits) ==
    CASE bits = 8 -> <<0, v[2] % 256>>
      [] bits = 16 -> <<0, v[2]>>
      [] OTHER -> v

\* what a big-endian read of that many bits finds where the 32-bit word is word
ReadOf(word, bits) ==
    CASE bits = 8 -> <<0, word[1] \div 256>>
      [] bits = 16 -> <<0, word[1]>>
      [] OTHER -> word

\* the integer that v, of that many bits, stands for in two's complement
Signed(v, bits) ==
    CASE bits = 8 -> IF v[2] >= 128 THEN v[2] - 256 ELSE v[2]
      [] bits = 16 -> IF v[2] >= 32768 THEN v[2] - 65536 ELSE v[2]
      [] OTHER -> IF v[1] >= 32768 THEN (v[1] - 65536) * 65536 + v[2]
                  ELSE v[1] * 65536 + v[2]

\* a < b as unsigned integers
Below(a, b) == a[1] < b[1] \/ (a[1] = b[1] /\ a[2] < b[2])

\* a and b have a bit in common
Overlap(a, b) ==
    \E h \in 1..2, i \in 0..15 :
        (a[h] \div (2 ^ i)) % 2 = 1 /\ (b[h] \div (2 ^ i)) % 2 = 1

\* the comparison of the given type holds of the operand a and the value b,
\* the signed ones read at the given number of bits
Compares(type, a, b, bits) ==
    CASE type = 1 -> a = b
      [] type = 2 -> a # b
      [] type = 3 -> Signed(a, bits) < Signed(b, bits)
      [] type = 4 -> Signed(a, bits) > Signed(b, bits)
      [] type = 5 -> Below(a, b)
      [] type = 6 -> Below(b, a)
      [] type = 7 -> Overlap(a, b)

\* the k-th iteration, an executed conditional, found its comparison true
\* when the signed comparisons are read at bits(w) for an operand w bits wide
ComparedAt(k, bits(_)) ==
    LET addr == hist[k].entry.cmd_addr
        w == WidthOf((addr[1] \div 512) % 4)
    IN  hist[k].skip_post = 0
            <=> Compares((addr[1] \div 2048) % 8, ReadOf(hist[k].rd, w),
                         Low(hist[k].entry.value, w), bits(w))

\* C27 - a conditional compares the operand it reads at E, 8, 16 or 32 bits
\* wide by its size, with its value cut down to that width: equal, not
\* equal, less and greater signed, less and greater unsigned, a bit in
\* common, for the types 1 to 7; the signed comparisons take both for two's
\* complement integers of that width.
C27_ComparisonAtWidth ==
    \A k \in 1..Len(hist) :
        ExecutedConditional(k) => LET bits(w) == w IN ComparedAt(k, bits)

\* C27, as the code has it - the same, but the signed comparisons take both
\* for two's complement integers of 32 bits, whatever the width: an 8-bit
\* or 16-bit operand is never negative.
C27_ComparisonAt32Bits ==
    \A k \in 1..Len(hist) :
        ExecutedConditional(k) => LET bits(w) == 32 IN ComparedAt(k, bits)

\* a pass is over whose 8-bit "if less, signed" found 0x80 at E, compared it
\* with 0x01 and set the skip count
C27_Witness ==
    /\ PassOver
    /\ Len(hist) = 1
    /\ hist[1].entry = AREntry(CommandWord(0, CONDTIONAL_LESS_THAN_SIGNED, DATATYPE_8BIT,
                                          OperandAddress), <<0, 1>>)
    /\ hist[1].rd = <<\h8000, 0>>
    /\ hist[1].skip_post = 1

\* E of the k-th entry: its gcaddr with bit 31 set
EffectiveAddress(k) ==
    <<\h8000 + (hist[k].entry.cmd_addr[1] % 512), hist[k].entry.cmd_addr[2]>>

SizeOf(k) == (hist[k].entry.cmd_addr[1] \div 512) % 4

\* the k-th iteration dispatched an instruction of type 0 and that subtype:
\* its command word is neither 0 nor in 0x00002000..0x00002FFF
ExecutedNormal(k, subtype) ==
    /\ Executed(k)
    /\ hist[k].entry.cmd_addr # <<0, 0>>
    /\ ~(hist[k].entry.cmd_addr[1] = 0 /\ hist[k].entry.cmd_addr[2] \in \h2000..\h2FFF)
    /\ (hist[k].entry.cmd_addr[1] \div 2048) % 8 = 0
    /\ hist[k].entry.cmd_addr[1] \div 16384 = subtype

\* the j-th write of the k-th iteration, j from 0
WriteOf(k, j) == wr[hist[k].nwr_pre + 1 + j]

\* byte j, from 0, of the big-endian image of the low bytes of v
ByteOf(v, bytes, j) ==
    LET at == (4 - bytes) + j
    IN  CASE at = 0 -> v[1] \div 256
          [] at = 1 -> v[1] % 256
          [] at = 2 -> v[2] \div 256
          [] at = 3 -> v[2] % 256

\* the pass ran a code of one entry
RanOne == PassOver /\ Len(hist) = 1 /\ Len(pass.codes[1].ops) = 1

\* C28 - a RAM write and fill with E its gcaddr with bit 31 set and D its
\* value: at 8 bits it writes the byte D & 0xFF at E + i for i from 0
\* through D >> 8, in that order; at 16 bits the half-word D & 0xFFFF at
\* E + 2i for i from 0 through D >> 16; at 32 bits and at 32-bit float, D
\* once at E.  It writes nothing else, changes neither the skip count nor
\* what is pending, and the run goes on: after a code of this one entry
\* the bytes written hold the value, every other byte is what it was, and
\* the code is kept.
C28_RamWriteAndFill ==
    \A k \in 1..Len(hist) :
        ExecutedNormal(k, 0) =>
            LET D == hist[k].entry.value
                E == EffectiveAddress(k)
                bytes == CASE SizeOf(k) = 0 -> 1 [] SizeOf(k) = 1 -> 2 [] OTHER -> 4
                count == CASE SizeOf(k) = 0 -> D[1] * 256 + (D[2] \div 256) + 1
                           [] SizeOf(k) = 1 -> D[1] + 1
                           [] OTHER -> 1
            IN  /\ WritesOf(k) = count
                /\ \A i \in 0..(count - 1) :
                       WriteOf(k, i) = [i |-> k, a |-> AddInt(E, bytes * i), w |-> bytes,
                                        v |-> Low(D, 8 * bytes)]
                /\ hist[k].res = "continue"
                /\ hist[k].skip_post = 0 /\ ~hist[k].fs_post /\ ~hist[k].mc_post
                /\ RanOne =>
                       /\ \A j \in 0..(count * bytes - 1) :
                              HostRead_U8(mem, AddInt(E, j)) = ByteOf(D, bytes, j % bytes)
                       /\ Unchanged(((DOMAIN mem) \cup (DOMAIN pass.mem))
                                    \ Bytes(E, count * bytes))
                       /\ s_active_codes = pass.codes

\* a pass is over whose 16-bit write and fill of 0x0002BEEF wrote BE EF three
\* times from E, over the word FF FF FF FF and the two bytes after it
C28_Witness ==
    /\ RanOne
    /\ hist[1].entry = AREntry(CommandWord(SUB_RAM_WRITE, 0, DATATYPE_16BIT, OperandAddress),
                              <<\h0002, \hBEEF>>)
    /\ pass.mem = PokeU32(NoMem, <<\h8010, \h0000>>, <<\hFFFF, \hFFFF>>)
    /\ HostRead_U32(mem, <<\h8010, \h0000>>) = <<\hBEEF, \hBEEF>>
    /\ HostRead_U32(mem, <<\h8010, \h0004>>) = <<\hBEEF, 0>>
    /\ Len(wr) = 3

\* a + b modulo 2 to the power bits
SumAt(a, b, bits) ==
    CASE bits = 8 -> <<0, (a[2] + b[2]) % 256>>
      [] bits = 16 -> <<0, (a[2] + b[2]) % 65536>>
      [] OTHER -> <<(a[1] + b[1] + ((a[2] + b[2]) \div 65536)) % 65536,
                    (a[2] + b[2]) % 65536>>

\* C29 - an add of size 8, 16 or 32 bits writes once, at E and at that
\* width, the value it found there plus its operand modulo 2^8, 2^16 or
\* 2^32; it changes neither the skip count nor what is pending, and the run
\* goes on: after a code of this one entry the bytes at E hold the sum,
\* every other byte is what it was, and the code is kept.
C29_AddAtWidth ==
    \A k \in 1..Len(hist) :
        (ExecutedNormal(k, 2) /\ SizeOf(k) \in 0..2) =>
            LET E == EffectiveAddress(k)
                bits == WidthOf(SizeOf(k))
                sum == SumAt(ReadOf(hist[k].rd, bits), hist[k].entry.value, bits)
            IN  /\ WritesOf(k) = 1
                /\ WriteOf(k, 0) = [i |-> k, a |-> E, w |-> bits \div 8, v |-> sum]
                /\ hist[k].res = "continue"
                /\ hist[k].skip_post = 0 /\ ~hist[k].fs_post /\ ~hist[k].mc_post
                /\ RanOne =>
                       /\ \A j \in 0..(bits \div 8 - 1) :
                              HostRead_U8(mem, AddInt(E, j)) = ByteOf(sum, bits \div 8, j)
                       /\ Unchanged(((DOMAIN mem) \cup (DOMAIN pass.mem))
                                    \ Bytes(E, bits \div 8))
                       /\ s_active_codes = pass.codes

\* a pass is over whose 16-bit add of 0x00008000 found 0xFFFF at E and
\* left 0x7FFF there
C29_Witness ==
    /\ RanOne
    /\ hist[1].entry = AREntry(CommandWord(SUB_ADD_CODE, 0, DATATYPE_16BIT, OperandAddress),
                              <<0, \h8000>>)
    /\ HostRead_U32(pass.mem, <<\h8010, \h0000>>) = <<\hFFFF, 0>>
    /\ HostRead_U32(mem, <<\h8010, \h0000>>) = <<\h7FFF, 0>>

\* a pass is over whose 8-bit add of 0xFFFFFFFF found 0x00 at E, with
\* 0xFF after it, and left 0xFF there
C29_Witness_Byte ==
    /\ RanOne
    /\ hist[1].entry = AREntry(CommandWord(SUB_ADD_CODE, 0, DATATYPE_8BIT, OperandAddress),
                              <<\hFFFF, \hFFFF>>)
    /\ HostRead_U32(pass.mem, <<\h8010, \h0000>>) = <<\h00FF, \hFFF0>>
    /\ HostRead_U32(mem, <<\h8010, \h0000>>) = <<\hFFFF, \hFFF0>>

\* a + n modulo 2^32 for an integer n of either sign
Shifted(a, n) ==
    LET lo == a[2] + (n % 65536)
        hi == a[1] + ((n - (n % 65536)) \div 65536) + (lo \div 65536)
    IN  <<hi % 65536, lo % 65536>>

\* C30 - the entry taken as the second line of a fill and slide makes as
\* many writes as bits 16..23 of its value say, none when they are 0.  With
\* E and the width of w = 1, 2 or 4 bytes from val_last, the first value
\* the entry's whole command word, the address increment the low 16 bits of
\* its value as a signed integer and the value increment the top 8 bits as
\* a signed integer, write j, from 0, stores the low w bytes of the first
\* value plus j times the value increment, modulo 2^32, at E plus j times w
\* times the address increment, modulo 2^32: the first write is at E and of
\* the first value.  After a code of these two lines each byte written
\* holds what the last write to it stored and every other byte is what it
\* was.
C30_FillAndSlide ==
    \A k \in 1..Len(hist) :
        hist[k].fs_pre =>
            LET val_last == hist[k].val_pre
                E == <<\h8000 + (val_last[1] % 512), val_last[2]>>
                size == (val_last[1] \div 512) % 4
                w == CASE size = 0 -> 1 [] size = 1 -> 2 [] size = 2 -> 4
                val0 == hist[k].entry.cmd_addr
                data == hist[k].entry.value
                write_num == data[1] % 256
                addr_incr == Signed(<<0, data[2]>>, 16)
                val_incr == Signed(<<0, data[1] \div 256>>, 8)
                At(j) == Shifted(E, j * w * addr_incr)
                Value(j) == Low(Shifted(val0, j * val_incr), 8 * w)
            IN  /\ size \in 0..2
                /\ WritesOf(k) = write_num
                /\ \A j \in 0..(write_num - 1) :
                       WriteOf(k, j) = [i |-> k, a |-> At(j), w |-> w, v |-> Value(j)]
                /\ hist[k].res = "continue"
                /\ (PassOver /\ Len(hist) = 2 /\ k = 2) =>
                       /\ \A j \in 0..(write_num - 1), b \in 0..(w - 1) :
                              (\A later \in (j + 1)..(write_num - 1) :
                                   Shifted(At(j), b) \notin Bytes(At(later), w))
                              => HostRead_U8(mem, Shifted(At(j), b)) = ByteOf(Value(j), w, b)
                       /\ Unchanged(((DOMAIN mem) \cup (DOMAIN pass.mem))
                                    \ UNION {Bytes(At(j), w) : j \in 0..(write_num - 1)})
                       /\ s_active_codes = pass.codes

\* a pass is over whose 16-bit fill and slide from E, with the first value
\* 0x1234FFFF, the value increment -1, three writes and the address
\* increment -1, left FF FF at E, FF FE two bytes below and FF FD four
\* bytes below
C30_Witness ==
    /\ PassOver
    /\ Len(hist) = 2
    /\ hist[2].fs_pre
    /\ hist[2].val_pre = CommandWord(2, 0, DATATYPE_16BIT, OperandAddress)
    /\ hist[2].entry = AREntry(<<\h1234, \hFFFF>>, <<\hFF03, \hFFFF>>)
    /\ HostRead_U16(mem, <<\h8010, \h0000>>) = \hFFFF
    /\ HostRead_U16(mem, <<\h800F, \hFFFE>>) = \hFFFE
    /\ HostRead_U16(mem, <<\h800F, \hFFFC>>) = \hFFFD
    /\ Len(wr) = 3

(***************************************************************************)
(* Properties of the memory copy and of the writes through pointers        *)
(***************************************************************************)
\* the k-th iteration took its entry as the second line of a memory copy,
\* and no entry before it had written: memory was as the pass found it
CopyLine(k) == hist[k].mc_pre /\ hist[k].nwr_pre = 0

\* bits 16..23 of the value of the k-th entry, and its top eight bits
Bits16To23(k) == hist[k].entry.value[1] % 256
TopByte(k) == hist[k].entry.value[1] \div 256

\* val_last & ~0x06000000, and the gcaddr of the k-th entry with bit 31 set
CopyDest(k) ==
    <<hist[k].val_pre[1] - ((hist[k].val_pre[1] \div 512) % 4) * 512, hist[k].val_pre[2]>>
CopySrc(k) == EffectiveAddress(k)

\* the k-th iteration wrote count bytes, in ascending order, to dest + i
\* what src + i held when it was written: what memory held there before,
\* or what an earlier byte of the copy put there
Copied(k, src, dest, count) ==
    /\ WritesOf(k) = count
    /\ \A i \in 0..(count - 1) :
           LET from == Shifted(src, i)
               earlier == {j \in 0..(i - 1) : Shifted(dest, j) = from}
           IN  WriteOf(k, i) =
                   [i |-> k, a |-> Shifted(dest, i), w |-> 1,
                    v |-> <<0, IF earlier = {} THEN HostRead_U8(pass.mem, from)
                               ELSE WriteOf(k, CHOOSE j \in earlier : TRUE).v[2]>>]

\* C31 - a memory copy whose value has bits 16..23 clear and no pointer
\* flag copies as many bytes as the low 15 bits of the value say, any
\* number from 0 to 32767: byte i, in ascending order, from the gcaddr of
\* the second line with bit 31 set plus i to val_last & ~0x06000000 plus i.
C31_CopiesNumBytes ==
    \A k \in 1..Len(hist) :
        (CopyLine(k) /\ Bits16To23(k) = 0 /\ TopByte(k) = 0) =>
            Copied(k, CopySrc(k), CopyDest(k), hist[k].entry.value[2] % 32768)

\* C31, as the code has it - the same, but the number of bytes is the low 8
\* bits of the value: num_bytes is a u8.
C31_CopiesLowByteOfNumBytes ==
    \A k \in 1..Len(hist) :
        (CopyLine(k) /\ Bits16To23(k) = 0 /\ TopByte(k) = 0) =>
            Copied(k, CopySrc(k), CopyDest(k), hist[k].entry.value[2] % 256)

\* a pass is over whose memory copy, asked for 0x0105 bytes, made five
\* writes
C31_Witness ==
    /\ PassOver
    /\ Len(hist) = 2
    /\ CopyLine(2) /\ Bits16To23(2) = 0 /\ TopByte(2) = 0
    /\ hist[2].entry.value[2] = \h0105
    /\ WritesOf(2) = 5
    /\ s_active_codes = pass.codes

\* the number of bytes the code copies: the 15-bit field as a u8
NumBytes(k) == (hist[k].entry.value[2] % 32768) % 256

\* C32 - the second line of a memory copy with any of bits 16..23 of its
\* value set makes the run fail and writes nothing, whatever memory holds.
\* Otherwise, with any of the top eight bits set, the copy runs between the
\* addresses that memory held, as 32-bit words, at the source and at the
\* destination before the first byte was copied; with none of them set,
\* between the source and the destination themselves.  In both cases the
\* run goes on.
C32_CopyParameters ==
    \A k \in 1..Len(hist) :
        CopyLine(k) =>
            IF Bits16To23(k) # 0
            THEN /\ hist[k].res = "false"
                 /\ WritesOf(k) = 0
                 /\ PassOver => mem = pass.mem /\ s_active_codes = <<>>
            ELSE /\ hist[k].res = "continue"
                 /\ IF TopByte(k) # 0
                    THEN Copied(k, HostRead_U32(pass.mem, CopySrc(k)),
                                HostRead_U32(pass.mem, CopyDest(k)), NumBytes(k))
                    ELSE Copied(k, CopySrc(k), CopyDest(k), NumBytes(k))

\* a pass is over whose memory copy with pointers moved five bytes from
\* 0x80100100, where the word at the source pointed, to 0x80100102, where
\* the word at the destination pointed: the bytes DE AD BE EF CA became
\* DE AD DE AD DE AD DE
C32_Witness ==
    /\ PassOver
    /\ Len(hist) = 2
    /\ CopyLine(2) /\ Bits16To23(2) = 0 /\ TopByte(2) = 1
    /\ hist[2].entry.value[2] = 5
    /\ HostRead_U32(pass.mem, <<\h8010, \h0000>>) = <<\h8010, \h0100>>
    /\ HostRead_U32(pass.mem, <<\h8010, \h0030>>) = <<\h8010, \h0102>>
    /\ HostRead_U32(pass.mem, <<\h8010, \h0100>>) = <<\hDEAD, \hBEEF>>
    /\ HostRead_U32(mem, <<\h8010, \h0100>>) = <<\hDEAD, \hDEAD>>
    /\ HostRead_U32(mem, <<\h8010, \h0104>>) = <<\hDEAD, \hDE02>>
    /\ HostRead_U32(mem, <<\h8010, \h0030>>) = <<\h8010, \h0102>>

\* a pass is over whose memory copy had bit 16 of its value set
C32_Witness_BadValue ==
    /\ PassOver
    /\ Len(hist) = 2
    /\ CopyLine(2) /\ Bits16To23(2) = 1 /\ NumBytes(2) = 5
    /\ hist[2].res = "false"
    /\ s_active_codes = <<>>

\* C33 - a write to a pointer, and a memory copy with pointers that copies
\* at least one byte, write only when the pointer they read from memory,
\* the one word of the first and the destination word of the second, is
\* in main RAM: 0x80000000 <= p < 0x81800000.
C33_PointersChecked ==
    \A k \in 1..Len(hist) :
        /\ (ExecutedNormal(k, 1) /\ WritesOf(k) > 0) => mem_check(hist[k].rd)
        /\ (CopyLine(k) /\ Bits16To23(k) = 0 /\ TopByte(k) # 0 /\ WritesOf(k) > 0) =>
               mem_check(HostRead_U32(pass.mem, CopyDest(k)))

\* C33, as the code has it - a write to a pointer always writes once, at the
\* pointer plus the offset in its value, whatever the pointer is.
C33_PointersFollowed ==
    \A k \in 1..Len(hist) :
        ExecutedNormal(k, 1) =>
            LET D == hist[k].entry.value
                offset == CASE SizeOf(k) = 0 -> D[1] * 256 + (D[2] \div 256)
                            [] SizeOf(k) = 1 -> D[1] * 2
                            [] OTHER -> 0
                bytes == CASE SizeOf(k) = 0 -> 1 [] SizeOf(k) = 1 -> 2 [] OTHER -> 4
            IN  /\ WritesOf(k) = 1
                /\ WriteOf(k, 0) = [i |-> k, a |-> Shifted(hist[k].rd, offset), w |-> bytes,
                                    v |-> Low(D, 8 * bytes)]
                /\ hist[k].res = "continue"

\* a pass is over whose 8-bit write to a pointer found the pointer 0 and
\* wrote the byte 0xAB to the address 0
C33_Witness ==
    /\ RanOne
    /\ hist[1].entry = AREntry(CommandWord(SUB_WRITE_POINTER, 0, DATATYPE_8BIT,
                                          OperandAddress), <<0, \h00AB>>)
    /\ hist[1].rd = <<0, 0>>
    /\ HostRead_U8(mem, <<0, 0>>) = \hAB
    /\ s_active_codes = pass.codes

(***************************************************************************)
(* Properties of the walk of RunCodeLocked over the list                   *)
(***************************************************************************)
\* the iterations of the run so far have visited the entries of the list
\* in listing order, each once, and the writes of the run are those of the
\* iterations, in the order of the iterations
ForwardWalk ==
    /\ pc["cpu"] = "RunCodeLocked" =>
           /\ Len(hist) = run.ei - 1
           /\ Len(hist) <= Len(s_active_codes[run.ci].ops)
           /\ \A k \in 1..Len(hist) : hist[k].entry = s_active_codes[run.ci].ops[k]
    /\ \A k \in 1..Len(hist) :
           /\ hist[k].nwr_pre = (IF k = 1 THEN 0 ELSE hist[k - 1].nwr_post)
           /\ hist[k].nwr_pre <= hist[k].nwr_post
    /\ Len(hist) > 0 => Len(wr) = hist[Len(hist)].nwr_post
    /\ \A j \in 1..Len(wr) :
           /\ wr[j].i \in 1..Len(hist)
           /\ hist[wr[j].i].nwr_pre < j /\ j <= hist[wr[j].i].nwr_post
    /\ \A j1, j2 \in 1..Len(wr) : j1 < j2 => wr[j1].i <= wr[j2].i

\* an iteration adds one record to the history and moves to the next entry
OneStepForward ==
    (hist' # hist /\ hist' # <<>>) =>
        /\ hist' = Append(hist, hist'[Len(hist')])
        /\ run'.ei = run.ei + 1
        /\ run'.ci = run.ci
        /\ SubSeq(wr', 1, Len(wr)) = wr

\* C34 - a run of a code visits the entries of the list in listing order,
\* each at most once, and never goes back; the guest writes of an earlier
\* entry all come before those of a later one, the second line of a fill
\* and slide or of a memory copy included; and the pass comes to its end
\* whatever the list and the operands.
C34_SingleForwardWalk == [][OneStepForward]_vars /\ []ForwardWalk /\ <>PassOver

\* a pass is over that visited four entries: the second one, the second
\* line of a fill and slide, wrote before the fourth one did
C34_Witness ==
    /\ PassOver
    /\ Len(hist) = 4
    /\ hist[2].fs_pre
    /\ \E j1, j2 \in 1..Len(wr) : j1 < j2 /\ wr[j1].i = 2 /\ wr[j2].i = 4

\* the entry of the k-th iteration is a zero code 04
IsZeroCode04(k) ==
    hist[k].entry.cmd_addr = <<0, 0>> /\ hist[k].entry.value[1] \div 8192 = ZCODE_04

\* C35 - a positive skip counts entries of the list, not pairs: a false
\* conditional of subtype 0 sets the skip count to 1; when a zero code 04
\* follows it, that entry alone is skipped: the skip count goes from 1 to
\* 0, nothing is pending afterwards, val_last is not set and nothing is
\* written; the entry after the zero code is then run by its own command
\* word with nothing pending: as a RAM write and fill it writes its value
\* from its own address.
C35_SkipCountsEntries ==
    \A k \in 1..Len(hist) :
        (/\ ExecutedConditional(k)
         /\ hist[k].entry.cmd_addr[1] \div 16384 = 0
         /\ ~ByteIsEqual(k)) =>
            /\ hist[k].skip_post = 1
            /\ (k + 1 <= Len(hist) /\ IsZeroCode04(k + 1)) =>
                   /\ hist[k + 1].skip_pre = 1 /\ hist[k + 1].skip_post = 0
                   /\ ~hist[k + 1].fs_post /\ ~hist[k + 1].mc_post
                   /\ hist[k + 1].val_post = hist[k + 1].val_pre
                   /\ WritesOf(k + 1) = 0
                   /\ hist[k + 1].res = "continue"
                   /\ k + 2 <= Len(hist) =>
                          /\ Executed(k + 2)
                          /\ hist[k + 2].val_pre = hist[k].val_pre
                          /\ hist[k + 2].entry = Fill16 =>
                                 /\ WritesOf(k + 2) = 3
                                 /\ \A i \in 0..2 :
                                        WriteOf(k + 2, i) =
                                            [i |-> k + 2, a |-> <<\h8010, \h0020 + 2 * i>>,
                                             w |-> 2, v |-> <<0, \hBEEF>>]
                          /\ hist[k + 2].entry \in {Write8, ClosingWrite} =>
                                 WritesOf(k + 2) = 1

\* a pass is over in which a false "if equal, one line" was followed by the
\* first line of a fill and slide, which was skipped, and by the 16-bit
\* fill, which wrote BE EF three times from 0x80100020
C35_Witness ==
    /\ PassOver
    /\ Len(hist) = 3
    /\ hist[1].entry = IfEqual_OneLine /\ hist[1].skip_post = 1
    /\ hist[2].entry = FillAndSlide /\ hist[2].skip_pre = 1
    /\ hist[3].entry = Fill16 /\ WritesOf(3) = 3
    /\ HostRead_U32(mem, <<\h8010, \h0020>>) = <<\hBEEF, \hBEEF>>
    /\ s_active_codes = pass.codes

\* C37 - a skipped entry is inert.  An iteration that starts from a skip
\* count other than 0 never returns failure, writes nothing, leaves val_last
\* and the pending flags (both clear) as they are, and does to the skip
\* count what the count alone says, with one look at the entry for the
\* endif line: a positive count goes down by one, -2 goes to 0 on the endif
\* line and stays otherwise, -3 returns success.  This holds whatever the
\* entry is: a row, an unknown zero code, a master code, an entry in the
\* self-modification range, a conditional, a zero code 04; and whatever
\* guest memory holds.
C37_SkippedEntryInert ==
    \A k \in 1..Len(hist) :
        hist[k].skip_pre # 0 =>
            /\ hist[k].res # "false"
            /\ WritesOf(k) = 0
            /\ hist[k].val_post = hist[k].val_pre
            /\ ~hist[k].fs_pre /\ ~hist[k].fs_post
            /\ ~hist[k].mc_pre /\ ~hist[k].mc_post
            /\ hist[k].skip_pre > 0 =>
                   hist[k].skip_post = hist[k].skip_pre - 1 /\ hist[k].res = "continue"
            /\ hist[k].skip_pre = -2 =>
                   /\ hist[k].skip_post = (IF hist[k].entry = Endif THEN 0 ELSE -2)
                   /\ hist[k].res = "continue"
            /\ hist[k].skip_pre = -3 =>
                   hist[k].skip_post = -3 /\ hist[k].res = "true"
            /\ hist[k].skip_pre \in {1, 2, -2, -3}
            /\ k = Len(hist) /\ pc["cpu"] = "RunCodeLocked" =>
                   /\ alerts = <<>>
                   /\ mem = Replay(mem0, wr)

\* a pass is over that kept its code and left memory alone: a false "if
\* equal, until endif" was followed by a row, by a write in the
\* self-modification range and by the closing write, all three skipped
C37_Witness ==
    /\ PassOver
    /\ Len(hist) = 4
    /\ hist[1].entry = IfEqual_UntilEndif /\ hist[1].skip_post = -2
    /\ hist[2].entry = Row /\ hist[2].skip_pre = -2
    /\ hist[3].entry = Write8_AR /\ hist[3].skip_pre = -2
    /\ hist[4].entry = ClosingWrite /\ hist[4].skip_pre = -2
    /\ s_active_codes = pass.codes
    /\ mem = pass.mem
    /\ alerts = <<>>

\* a pass is over in which a false "if equal, two lines" was followed by a
\* conditional and by the first line of a memory copy, both skipped, and by
\* the closing write, which ran
C37_Witness_Conditional ==
    /\ PassOver
    /\ Len(hist) = 4
    /\ hist[1].entry = IfEqual_TwoLines /\ hist[1].skip_post = 2
    /\ hist[2].entry = IfEqual_AllLines /\ hist[2].skip_post = 1
    /\ hist[3].entry = MemoryCopy /\ hist[3].skip_post = 0 /\ ~hist[3].mc_post
    /\ hist[4].entry = ClosingWrite /\ WritesOf(4) = 1
    /\ s_active_codes = pass.codes

(***************************************************************************)
(* Properties of the result of RunCodeLocked                               *)
(***************************************************************************)
\* the raw command word of the k-th entry lies in [0x00002000, 0x00003000)
RawInAR(k) == hist[k].entry.cmd_addr[1] = 0 /\ hist[k].entry.cmd_addr[2] \in \h2000..\h2FFF

\* the one of the four cases in which the k-th iteration returns failure
FailureCase(k) ==
    LET addr == hist[k].entry.cmd_addr
        z == hist[k].entry.value[1] \div 8192
    IN  CASE hist[k].skip_pre # 0 -> "none"
          [] hist[k].fs_pre -> "none"
          [] hist[k].mc_pre -> IF Bits16To23(k) # 0 THEN "memory copy" ELSE "none"
          [] RawInAR(k) -> "self modification"
          [] addr = <<0, 0>> -> IF z \in {1, 3, 5, 6, 7} THEN "zero code" ELSE "none"
          [] (addr[1] \div 2048) % 8 = 0 /\ addr[1] \div 16384 = 3 -> "master code"
          [] OTHER -> "none"

\* C38 - an iteration of the run returns failure in four cases and in no
\* other: it runs an entry whose command word lies in [0x00002000,
\* 0x00003000); it runs a zero code whose value >> 29 is 1, 3, 5, 6 or 7;
\* it runs an instruction of type 0 and subtype 3; it runs the second line
\* of a memory copy whose value has a bit of 16..23 set.  Every RAM write,
\* write to a pointer, add, conditional and second line of a fill and
\* slide, whatever its size, subtype and operands, lets the run go on, and
\* the second line of a fill and slide is never run at size 3.
C38_FailureCases ==
    \A k \in 1..Len(hist) :
        /\ hist[k].res = "false" <=> FailureCase(k) # "none"
        /\ (hist[k].skip_pre = 0 /\ hist[k].fs_pre) =>
               /\ k > 1
               /\ (hist[k - 1].entry.value[1] \div 512) % 4 # 3
               /\ hist[k].res = "continue"
        /\ k = Len(hist) /\ pc["cpu"] = "RunCodeLocked" /\ run.res = "false" =>
               hist[k].res = "false"
        /\ (k = Len(hist) /\ PassOver /\ Len(pass.codes) = 1) =>
               (s_active_codes = <<>> <=> hist[k].res = "false")

\* a pass is over that dropped its code: the second line of its memory
\* copy had the bad value 0x00010005
C38_Witness ==
    /\ PassOver
    /\ Len(hist) = 2
    /\ FailureCase(2) = "memory copy"
    /\ hist[2].res = "false"
    /\ s_active_codes = <<>>

\* a pass is over that kept its code: a float add at E, the one add of
\* size 3
C38_Witness_Kept ==
    /\ RanOne
    /\ ExecutedNormal(1, SUB_ADD_CODE) /\ SizeOf(1) = DATATYPE_32BIT_FLOAT
    /\ hist[1].res = "continue"
    /\ s_active_codes = pass.codes

(***************************************************************************)
(* Properties of the locals of RunCodeLocked from one run to the next      *)
(***************************************************************************)
\* the run the pass made of its first code ended with a skip count other
\* than 0 or with a second line pending
FirstRunLeftOver ==
    /\ Len(pass.ran) >= 1
    /\ pass.ran[1].success
    /\ LET ops == pass.ran[1].arcode.ops
           last == ops[Len(ops)]
       IN  \/ last.cmd_addr = <<0, 0>> /\ last.value[1] \div 8192 = ZCODE_04
           \/ (last.cmd_addr[1] \div 2048) % 8 # 0 /\ HostRead_U8(pass.mem, <<\h8010, 0>>) # 1

\* C36 - every run of every code starts with skip_count 0, val_last 0 and
\* nothing pending, whatever the run before it has left: its first entry is
\* never skipped and never taken for the second line of a fill and slide or
\* of a memory copy, in the first tick and in every later one.  A 16-bit
\* fill that comes first in its code writes its three half-words, a master
\* code that comes first fails its code, a write that comes first writes.
C36_StatePerInvocation ==
    /\ (pc["cpu"] = "RunCodeLocked" /\ hist = <<>>) =>
           /\ run.skip_count = 0
           /\ run.val_last = <<0, 0>>
           /\ ~run.do_fill_and_slide /\ ~run.do_memory_copy
    /\ hist # <<>> =>
           /\ Executed(1)
           /\ hist[1].val_pre = <<0, 0>>
           /\ hist[1].entry = Fill16 =>
                  /\ WritesOf(1) = 3
                  /\ WriteOf(1, 0) = [i |-> 1, a |-> <<\h8010, \h0020>>, w |-> 2,
                                      v |-> <<0, \hBEEF>>]
           /\ hist[1].entry = ClosingWrite => WritesOf(1) = 1
           /\ hist[1].entry = MasterCode => hist[1].res = "false"
           /\ hist[1].entry = Endif => ChangedNothing(1)

\* in the second tick the second code is in its run, after a first code in
\* both ticks whose last entry was the first line of a memory copy: its
\* first entry, the 16-bit fill, has written its three half-words
C36_Witness ==
    /\ pass.done = 1
    /\ pc["cpu"] = "RunCodeLocked"
    /\ run.ci = 2
    /\ FirstRunLeftOver
    /\ pass.ran[1].arcode.ops = <<MemoryCopy>>
    /\ pass.fin[1].codes = pass.codes
    /\ Len(hist) = 1 /\ hist[1].entry = Fill16 /\ WritesOf(1) = 3

\* the second code is in its run after a first code that ended on a false
\* "if equal, until endif": its first entry, the closing write, has written
C36_Witness_Skip ==
    /\ pc["cpu"] = "RunCodeLocked"
    /\ run.ci = 2
    /\ FirstRunLeftOver
    /\ pass.ran[1].arcode.ops = <<IfEqual_UntilEndif>>
    /\ Len(hist) = 1 /\ hist[1].entry = ClosingWrite /\ WritesOf(1) = 1

(***************************************************************************)
(* Properties of the store mutex                                           *)
(***************************************************************************)
\* where the emulation thread stands inside the locked pass of RunAllActive
PassPoints == {"remove_if", "RunCodeLocked", "RunAllActive_exit"}

\* no thread stands before a lock_guard with the mutex in its own hands, and
\* the mutex is in the hands of the thread that stands in a guarded scope
NoSelfDeadlock ==
    \A t \in Threads :
        /\ pc[t] \in LockPoints => s_lock # t
        /\ s_lock = t <=> pc[t] \in GuardedPoints

\* the locked pass calls none of the operations that lock: the emulation
\* thread leaves it only by returning from RunAllActive
PassCallsNoLocker ==
    pc["cpu"] \in PassPoints => pc'["cpu"] \in PassPoints \cup {"idle"}

\* C39 - no thread ever tries to lock s_lock while it holds it: the call of
\* ApplyCodes that RunAllActive makes through ActivateARCodesFor has
\* released the mutex when RunAllActive locks it for the pass, and the pass
\* calls no operation that locks.  So every thread that holds the mutex
\* releases it, and every thread that waits for it gets it.
C39_NoSelfDeadlock ==
    /\ []NoSelfDeadlock
    /\ [][PassCallsNoLocker]_pc
    /\ \A t \in Threads : (s_lock = t) ~> (s_lock # t)
    /\ \A t \in Threads : (pc[t] \in LockPoints) ~> (pc[t] \in GuardedPoints)

\* the emulation thread stands before the lock_guard of the pass after the
\* call of ApplyCodes it made for the title it detected, and the host
\* thread holds the mutex
C39_Witness ==
    /\ pc["cpu"] = "RunAllActive_lock"
    /\ last_game_running # -1
    /\ s_lock = "ui"

(***************************************************************************)
(* Properties of CUCode_CARD                                               *)
(***************************************************************************)
\* C40 - the constructor of CUCode_CARD queues the mail DSP_INIT, after
\* what the queue holds; HandleMail, whatever the mail, queues one mail,
\* DSP_DONE, and then puts the ROM ucode in place: it makes these two calls
\* and no other; Update raises one DSP interrupt when the queue holds a
\* mail and none when it is empty, and leaves the queue as it is.
C40_CardMailProtocol ==
    /\ dsp.last.op = "CUCode_CARD" =>
           /\ dsp.mails = Append(dsp.last.mails, "DSP_INIT")
           /\ dsp.last.calls = << <<"PushMail", "DSP_INIT">> >>
           /\ dsp.ucode = "UCODE_CARD"
    /\ dsp.last.op = "HandleMail" =>
           /\ dsp.last.calls = << <<"PushMail", "DSP_DONE">>, <<"SetUCode", "UCODE_ROM">> >>
           /\ dsp.ucode = "UCODE_ROM"
           /\ dsp.interrupts = dsp.last.interrupts
    /\ dsp.last.op = "Update" =>
           /\ dsp.mails = dsp.last.mails
           /\ dsp.ucode = "UCODE_CARD"
           /\ dsp.interrupts = dsp.last.interrupts + (IF dsp.last.mails # <<>> THEN 1 ELSE 0)
           /\ dsp.last.calls = (IF dsp.last.mails # <<>>
                                THEN << <<"GenerateDSPInterruptFromDSPEmu", "INT_DSP">> >>
                                ELSE <<>>)

\* the second CUCode_CARD has handled the unlock command: DSP_DONE is in
\* the queue behind DSP_INIT, the ROM ucode is in place, and an Update has
\* raised an interrupt before
C40_Witness ==
    /\ dsp.last.op = "HandleMail"
    /\ dsp.last.mail = <<\hFF00, 0>>
    /\ dsp.constructed = 2
    /\ dsp.mails = <<"DSP_INIT", "DSP_DONE">>
    /\ dsp.ucode = "UCODE_ROM"
    /\ dsp.interrupts = 1

\* an Update that found the queue empty, the CPU having read DSP_INIT, and
\* raised no interrupt
C40_Witness_Empty ==
    /\ dsp.last.op = "Update"
    /\ dsp.last.mails = <<>>
    /\ dsp.interrupts = 0
    /\ dsp.ucode = "UCODE_CARD"

\* an unknown command handled
C40_Witness_Unknown ==
    /\ dsp.last.op = "HandleMail"
    /\ dsp.last.mail = <<\hFF00, 1>>
    /\ dsp.mails = <<"DSP_INIT", "DSP_DONE">>

====
